---- MODULE Spec2Model ----
(***************************************************************************)
(* BananaDB: the multi-provider car-listing parsing pipeline               *)
(* (getSettings, parseWith<Provider>, parseAIResponse, validateListing,    *)
(* parseCarListing).                                                       *)
(*                                                                         *)
(* JavaScript values are tagged records; a string is the sequence of its   *)
(* characters, so that trim() and toLowerCase() are computed; a JSON text  *)
(* is the sequence of its tokens, and JSON.parse is a parser over it.      *)
(***************************************************************************)
EXTENDS Integers, Sequences, FiniteSets, Bags, TLC

(***************************************************************************)
(* JavaScript values                                                       *)
(***************************************************************************)
Undefined == [t |-> "undef"]
Null == [t |-> "null"]
Num(n) == [t |-> "num", n |-> n]
Str(s) == [t |-> "str", s |-> s]
Bool(b) == [t |-> "bool", b |-> b]
Arr(a) == [t |-> "arr", a |-> a]
Obj(o) == [t |-> "obj", o |-> o]
\* a function or object inherited from Object.prototype
Builtin(name) == [t |-> "builtin", name |-> name]

NoFields == <<>>

\* typeof v
TypeOf(v) ==
  CASE v.t = "undef" -> "undefined"
    [] v.t = "num" -> "number"
    [] v.t = "str" -> "string"
    [] v.t = "bool" -> "boolean"
    [] v.t = "builtin" -> "function"
    [] OTHER -> "object"

\* ToBoolean(v), as used by !v, v && w, v || w, if (v)
Truthy(v) ==
  CASE v.t = "undef" -> FALSE
    [] v.t = "null" -> FALSE
    [] v.t = "num" -> v.n # 0
    [] v.t = "str" -> v.s # <<>>
    [] v.t = "bool" -> v.b
    [] OTHER -> TRUE

IsArray(v) == v.t = "arr"

\* v.f for a v that is neither null nor undefined
Get(v, f) == IF v.t = "obj" /\ f \in DOMAIN v.o THEN v.o[f] ELSE Undefined

\* v.f = w on an object
Put(v, f, w) == Obj((f :> w) @@ v.o)

\* delete v.f on an object
Delete(v, f) == Obj([g \in DOMAIN v.o \ {f} |-> v.o[g]])

\* v || w
OrElse(v, w) == IF Truthy(v) THEN v ELSE w

(***************************************************************************)
(* Strings                                                                 *)
(***************************************************************************)
WhiteSpace == {" ", "\t", "\n"}

RECURSIVE TrimStart(_)
TrimStart(s) ==
  IF s # <<>> /\ Head(s) \in WhiteSpace THEN TrimStart(Tail(s)) ELSE s

RECURSIVE TrimEnd(_)
TrimEnd(s) ==
  IF s # <<>> /\ s[Len(s)] \in WhiteSpace
  THEN TrimEnd(SubSeq(s, 1, Len(s) - 1))
  ELSE s

\* trim() forgotten
Trim_Identity(s) == s

\* s.trim()
Trim(s) == TrimEnd(TrimStart(s))

UpperCase == <<"A", "B", "C", "D", "E", "F", "G", "H", "I", "J", "K", "L", "M",
               "N", "O", "P", "Q", "R", "S", "T", "U", "V", "W", "X", "Y", "Z">>
LowerCase == <<"a", "b", "c", "d", "e", "f", "g", "h", "i", "j", "k", "l", "m",
               "n", "o", "p", "q", "r", "s", "t", "u", "v", "w", "x", "y", "z">>

ToLowerChar(c) ==
  IF \E i \in DOMAIN UpperCase : UpperCase[i] = c
  THEN LowerCase[CHOOSE i \in DOMAIN UpperCase : UpperCase[i] = c]
  ELSE c

\* s.toLowerCase()
ToLowerCase(s) == [i \in DOMAIN s |-> ToLowerChar(s[i])]

(***************************************************************************)
(* Errors: new Error(message). A message is the sequence of the pieces it  *)
(* was concatenated from.                                                  *)
(***************************************************************************)
Error(msg) == [isError |-> TRUE, msg |-> msg]

\* a function's outcome: a returned value or a thrown error
Return(v) == [ok |-> TRUE, val |-> v]
Throw(e) == [ok |-> FALSE, err |-> e]

(***************************************************************************)
(* JSON texts and JSON.parse                                               *)
(***************************************************************************)
Punct(p) == [k |-> "punct", p |-> p]
TNull == [k |-> "null"]
TBool(b) == [k |-> "bool", b |-> b]
TNum(n) == [k |-> "num", n |-> n]
TStr(s) == [k |-> "str", s |-> s]
\* a string in member-name position
TKey(name) == [k |-> "key", name |-> name]

IsPunct(toks, i, p) == i <= Len(toks) /\ toks[i] = Punct(p)

PFail == [ok |-> FALSE]
POk(v, next) == [ok |-> TRUE, val |-> v, next |-> next]

RECURSIVE ParseValue(_, _)
RECURSIVE ParseElements(_, _, _)
RECURSIVE ParseMembers(_, _, _)

\* the value starting at token i, and the index after it
ParseValue(toks, i) ==
  IF i > Len(toks) THEN PFail
  ELSE LET tk == toks[i] IN
    CASE tk.k = "null" -> POk(Null, i + 1)
      [] tk.k = "bool" -> POk(Bool(tk.b), i + 1)
      [] tk.k = "num" -> POk(Num(tk.n), i + 1)
      [] tk.k = "str" -> POk(Str(tk.s), i + 1)
      [] tk.k = "punct" /\ tk.p = "[" ->
           IF IsPunct(toks, i + 1, "]") THEN POk(Arr(<<>>), i + 2)
           ELSE ParseElements(toks, i + 1, <<>>)
      [] tk.k = "punct" /\ tk.p = "{" ->
           IF IsPunct(toks, i + 1, "}") THEN POk(Obj(NoFields), i + 2)
           ELSE ParseMembers(toks, i + 1, NoFields)
      [] OTHER -> PFail

ParseElements(toks, i, acc) ==
  LET r == ParseValue(toks, i) IN
  IF ~r.ok THEN PFail
  ELSE IF IsPunct(toks, r.next, ",")
       THEN ParseElements(toks, r.next + 1, Append(acc, r.val))
  ELSE IF IsPunct(toks, r.next, "]")
       THEN POk(Arr(Append(acc, r.val)), r.next + 1)
  ELSE PFail

ParseMembers(toks, i, acc) ==
  IF ~(i <= Len(toks) /\ toks[i].k = "key" /\ IsPunct(toks, i + 1, ":"))
  THEN PFail
  ELSE LET r == ParseValue(toks, i + 2) IN
    IF ~r.ok THEN PFail
    ELSE LET acc2 == (toks[i].name :> r.val) @@ acc IN
      IF IsPunct(toks, r.next, ",") THEN ParseMembers(toks, r.next + 1, acc2)
      ELSE IF IsPunct(toks, r.next, "}") THEN POk(Obj(acc2), r.next + 1)
      ELSE PFail

\* JSON.parse(text): the value, or a SyntaxError
JSONParse(text) ==
  LET r == ParseValue(text, 1) IN
  IF r.ok /\ r.next = Len(text) + 1
  THEN Return(r.val)
  ELSE Throw(Error(<<"SyntaxError: Unexpected token in JSON">>))

(***************************************************************************)
(* Response Normalizer                                                     *)
(***************************************************************************)
\* parseAIResponse with the single-object test made before the other two
parseAIResponse_ObjectFirst(text) ==
  LET j == JSONParse(text)
      wrap(e) == Throw(Error(<<"Failed to parse AI response: ">> \o e.msg))
  IN IF ~j.ok THEN wrap(j.err)
     ELSE LET parsed == j.val IN
       IF parsed.t = "null"
       THEN wrap(Error(<<"Cannot read properties of null (reading 'listings')">>))
       ELSE IF TypeOf(parsed) = "object" THEN Return(<<parsed>>)
       ELSE IF Truthy(Get(parsed, "listings")) /\ IsArray(Get(parsed, "listings"))
       THEN Return(Get(parsed, "listings").a)
       ELSE IF IsArray(parsed) THEN Return(parsed.a)
       ELSE wrap(Error(<<"Invalid response format">>))

\* parseAIResponse(text): the list of candidate records, or an error.
\* Reading parsed.listings of null throws a TypeError inside the try block.
parseAIResponse(text) ==
  LET j == JSONParse(text)
      wrap(e) == Throw(Error(<<"Failed to parse AI response: ">> \o e.msg))
  IN IF ~j.ok THEN wrap(j.err)
     ELSE LET parsed == j.val IN
       IF parsed.t = "null"
       THEN wrap(Error(<<"Cannot read properties of null (reading 'listings')">>))
       ELSE IF Truthy(Get(parsed, "listings")) /\ IsArray(Get(parsed, "listings"))
       THEN Return(Get(parsed, "listings").a)
       ELSE IF IsArray(parsed) THEN Return(parsed.a)
       ELSE IF TypeOf(parsed) = "object" THEN Return(<<parsed>>)
       ELSE wrap(Error(<<"Invalid response format">>))

(***************************************************************************)
(* Listing Validator                                                       *)
(***************************************************************************)
MinYear == 1900

Petrol == <<"P", "e", "t", "r", "o", "l">>
Diesel == <<"D", "i", "e", "s", "e", "l">>
Electric == <<"E", "l", "e", "c", "t", "r", "i", "c">>
Hybrid == <<"H", "y", "b", "r", "i", "d">>
PlugInHybrid == <<"P", "l", "u", "g", "-", "i", "n", " ", "H", "y", "b", "r", "i", "d">>

\* the own properties of the fuelTypeMap literal
fuelTypeMap ==
  << <<<<"g", "a", "s", "o", "l", "i", "n", "e">>, Petrol>>,
     <<<<"g", "a", "s">>, Petrol>>,
     <<<<"p", "e", "t", "r", "o", "l">>, Petrol>>,
     <<<<"d", "i", "e", "s", "e", "l">>, Diesel>>,
     <<<<"e", "l", "e", "c", "t", "r", "i", "c">>, Electric>>,
     <<<<"h", "y", "b", "r", "i", "d">>, Hybrid>>,
     <<<<"p", "l", "u", "g", "-", "i", "n", " ", "h", "y", "b", "r", "i", "d">>, PlugInHybrid>>,
     <<<<"p", "l", "u", "g", "i", "n", " ", "h", "y", "b", "r", "i", "d">>, PlugInHybrid>>,
     <<<<"p", "h", "e", "v">>, PlugInHybrid>> >>

\* the lower-case property names every object literal inherits from
\* Object.prototype
ObjectPrototypeKeys == {<<"c", "o", "n", "s", "t", "r", "u", "c", "t", "o", "r">>, <<"_", "_", "p", "r", "o", "t", "o", "_", "_">>}

\* fuelTypeMap[key]: an own property, else an inherited one, else undefined
FuelTypeLookup(key) ==
  IF \E i \in DOMAIN fuelTypeMap : fuelTypeMap[i][1] = key
  THEN Str(fuelTypeMap[CHOOSE i \in DOMAIN fuelTypeMap : fuelTypeMap[i][1] = key][2])
  ELSE IF key \in ObjectPrototypeKeys THEN Builtin(key)
  ELSE Undefined

\* typeof v !== 'string' || !v.trim()
NotNonEmptyString(v) == TypeOf(v) # "string" \/ Trim(v.s) = <<>>

\* typeof v !== 'number' || v < 0
NotNonNegativeNumber(v) == TypeOf(v) # "number" \/ v.n < 0

\* the required-fields condition with the year's upper limit one year short
RequiredFieldsFail_YearOffByOne(listing, now) ==
  \/ NotNonEmptyString(Get(listing, "make"))
  \/ NotNonEmptyString(Get(listing, "model"))
  \/ TypeOf(Get(listing, "year")) # "number"
  \/ Get(listing, "year").n < MinYear
  \/ Get(listing, "year").n > now
  \/ NotNonNegativeNumber(Get(listing, "mileage"))
  \/ NotNonNegativeNumber(Get(listing, "price"))

\* the required-fields condition
RequiredFieldsFail(listing, now) ==
  \/ NotNonEmptyString(Get(listing, "make"))
  \/ NotNonEmptyString(Get(listing, "model"))
  \/ TypeOf(Get(listing, "year")) # "number"
  \/ Get(listing, "year").n < MinYear
  \/ Get(listing, "year").n > now + 1
  \/ NotNonNegativeNumber(Get(listing, "mileage"))
  \/ NotNonNegativeNumber(Get(listing, "price"))

OptionalNumericFields ==
  <<"co2", "power_kw", "power_hp", "number_of_doors", "number_of_seats">>

\* if (listing.f !== undefined) { if (typeof ... || ... < 0) return false; }
OptionalFieldFails(listing, f) ==
  Get(listing, f) # Undefined /\ NotNonNegativeNumber(Get(listing, f))

\* the fuel_type block: the listing after it, or a TypeError when
\* fuel_type has no toLowerCase method
NormalizeFuelType(listing) ==
  LET fuel == Get(listing, "fuel_type") IN
  IF ~Truthy(fuel) THEN Return(listing)
  ELSE IF TypeOf(fuel) # "string"
  THEN Throw(Error(<<"listing.fuel_type.toLowerCase is not a function">>))
  ELSE LET normalizedFuelType == FuelTypeLookup(ToLowerCase(fuel.s)) IN
    IF Truthy(normalizedFuelType)
    THEN Return(Put(listing, "fuel_type", normalizedFuelType))
    ELSE Return(Delete(listing, "fuel_type"))

\* a validateListing that rewrites fuel_type before it checks the fields
validateListing_NormalizeFirst(listing, now) ==
  IF ~Truthy(listing) \/ TypeOf(listing) # "object"
  THEN [ret |-> FALSE, listing |-> listing]
  ELSE LET r == NormalizeFuelType(listing) IN
    IF ~r.ok THEN [ret |-> FALSE, listing |-> listing]
    ELSE IF RequiredFieldsFail(r.val, now)
            \/ \E i \in DOMAIN OptionalNumericFields :
                 OptionalFieldFails(r.val, OptionalNumericFields[i])
    THEN [ret |-> FALSE, listing |-> r.val]
    ELSE [ret |-> TRUE, listing |-> r.val]

\* validateListing(listing) in a year `now`: the value returned and the
\* listing as validateListing leaves it
validateListing(listing, now) ==
  IF ~Truthy(listing) \/ TypeOf(listing) # "object"
  THEN [ret |-> FALSE, listing |-> listing]
  ELSE IF RequiredFieldsFail(listing, now)
  THEN [ret |-> FALSE, listing |-> listing]
  ELSE IF \E i \in DOMAIN OptionalNumericFields :
            OptionalFieldFails(listing, OptionalNumericFields[i])
  THEN [ret |-> FALSE, listing |-> listing]
  ELSE LET r == NormalizeFuelType(listing) IN
    IF r.ok THEN [ret |-> TRUE, listing |-> r.val]
    ELSE [ret |-> FALSE, listing |-> listing]

(***************************************************************************)
(* JSON texts a provider can answer with: the serialisation of a value     *)
(* (JSON.stringify), and texts cut short.                                  *)
(***************************************************************************)
RECURSIVE Stringify(_)
RECURSIVE StringifyElements(_)
RECURSIVE StringifyMembers(_, _)

Stringify(v) ==
  CASE v.t = "null" -> <<TNull>>
    [] v.t = "bool" -> <<TBool(v.b)>>
    [] v.t = "num" -> <<TNum(v.n)>>
    [] v.t = "str" -> <<TStr(v.s)>>
    [] v.t = "arr" -> <<Punct("[")>> \o StringifyElements(v.a) \o <<Punct("]")>>
    [] v.t = "obj" ->
         <<Punct("{")>> \o StringifyMembers(v.o, DOMAIN v.o) \o <<Punct("}")>>

StringifyElements(a) ==
  IF a = <<>> THEN <<>>
  ELSE IF Len(a) = 1 THEN Stringify(a[1])
  ELSE Stringify(a[1]) \o <<Punct(",")>> \o StringifyElements(Tail(a))

StringifyMembers(o, names) ==
  IF names = {} THEN <<>>
  ELSE LET f == CHOOSE f \in names : TRUE
           rest == names \ {f}
       IN <<TKey(f), Punct(":")>> \o Stringify(o[f]) \o
          (IF rest = {} THEN <<>> ELSE <<Punct(",")>> \o StringifyMembers(o, rest))

\* a text whose last token is missing
CutShort(text) == SubSeq(text, 1, Len(text) - 1)

\* all sequences over S of length at most n
RECURSIVE SeqsUpTo(_, _)
SeqsUpTo(S, n) ==
  IF n = 0 THEN {<<>>}
  ELSE LET shorter == SeqsUpTo(S, n - 1)
       IN shorter \cup {Append(q, e) : q \in {r \in shorter : Len(r) = n - 1}, e \in S}

(***************************************************************************)
(* State                                                                   *)
(***************************************************************************)
VARIABLES
  normText,   \* parseAIResponse: its argument
  normOut,    \* parseAIResponse: its outcome
  valIn,      \* validateListing: its argument when called
  valNow,     \* validateListing: new Date().getFullYear()
  valOut,     \* validateListing: the value returned and the listing afterwards
  rawData,    \* parseCarListing: its argument
  thisYear,   \* parseCarListing: new Date().getFullYear()
  pc,         \* parseCarListing: the await it is suspended at
  rpcLog,     \* the settings-store calls issued so far, in order
  pending,    \* the settings-store calls in flight
  replies,    \* the {data, error} of each settings-store call that completed
  settings,   \* the bundle getSettings returned
  requests,   \* the provider requests issued so far, in order
  response,   \* the Response that fetch resolved with, or Gemini's response
  parsedListings, \* the list the adapter returned, an array
  outcome,    \* what parseCarListing returned or threw
  parked,     \* the variables of a second invocation of parseCarListing while
              \* the first one runs
  loading,             \* AdminSettings: useState(true)
  loadError,           \* AdminSettings: the state `error`
  formSettings,        \* AdminSettings: the state `settings`
  isSavingGemini,      \* AdminSettings: useState(false)
  isSavingDeepseek,    \* AdminSettings: useState(false)
  isSavingOpenRouter,  \* AdminSettings: useState(false)
  isUpdatingProvider,  \* AdminSettings: useState(false)
  formMessage,         \* AdminSettings: the state `message`
  store,               \* the values the settings store holds
  ops,                 \* AdminSettings: the set of the handlers suspended at an await
  user,        \* useAuth: the user, or null
  isAdmin,     \* useAuth: isAdmin
  projectId,   \* useCarListings: its argument
  projects,    \* useProjects: the state `projects`
  listings,    \* useCarListings: the state `listings`
  hookLoading, \* the state `loading` of each of the two hooks
  hookError,   \* the state `error` of each of the two hooks
  tables,      \* the rows the remote tables hold, newest first
  calls,       \* the remote calls in flight, and what each was answered
  settled      \* how the promise of the last create, update or delete settled

normVars == <<normText, normOut>>
valVars == <<valIn, valNow, valOut>>
pipeVars == <<rawData, thisYear, pc, rpcLog, pending, replies, settings, requests,
              response, parsedListings, outcome>>
adminVars == <<loading, loadError, formSettings, isSavingGemini, isSavingDeepseek,
               isSavingOpenRouter, isUpdatingProvider, formMessage, store, ops>>
hookVars == <<user, isAdmin, projectId, projects, listings, hookLoading, hookError,
              tables, calls, settled>>
restVars == <<parked, adminVars, hookVars>>
vars == <<normVars, valVars, pipeVars, restVars>>

\* a call that has not happened
NotRun == [state |-> "notrun"]

NormIdle == normText = <<>> /\ normOut = NotRun
ValIdle == valIn = Null /\ valNow = 0 /\ valOut = NotRun
PipeIdle ==
  /\ rawData = <<>> /\ thisYear = 0 /\ pc = "idle"
  /\ rpcLog = <<>> /\ pending = {} /\ replies = <<>>
  /\ settings = NotRun /\ requests = <<>> /\ response = NotRun
  /\ parsedListings = NotRun /\ outcome = NotRun
ConcIdle == parked = NotRun
AdminIdle ==
  /\ loading = FALSE /\ loadError = Null /\ formSettings = NotRun
  /\ isSavingGemini = FALSE /\ isSavingDeepseek = FALSE /\ isSavingOpenRouter = FALSE
  /\ isUpdatingProvider = FALSE /\ formMessage = Null /\ store = NotRun /\ ops = {}
HooksIdle ==
  /\ user = Null /\ isAdmin = FALSE /\ projectId = "" /\ projects = <<>> /\ listings = <<>>
  /\ hookLoading = NotRun /\ hookError = NotRun /\ tables = NotRun /\ calls = <<>>
  /\ settled = NotRun

(***************************************************************************)
(* The Response Normalizer on its own                                      *)
(***************************************************************************)
MaxListings == 3

SampleMake == <<"V", "W">>
SampleModel == <<"G", "o", "l", "f">>

\* a record with the required fields only
MinimalListing ==
  Obj([make |-> Str(SampleMake), model |-> Str(SampleModel),
       year |-> Num(2019), mileage |-> Num(40000), price |-> Num(12000)])

NormElements == {Num(1), Null, MinimalListing, Obj(NoFields)}

NormLists == SeqsUpTo(NormElements, MaxListings)

NormScalars ==
  {Null, Bool(TRUE), Bool(FALSE), Num(0), Num(5), Str(<<>>), Str(<<"a">>)}

\* what the field listings can hold besides a list
NormOtherListings == {Null, Num(0), Num(3), Str(<<>>), Str(<<"a">>), Bool(TRUE), Obj(NoFields)}

NormValues ==
  NormScalars
  \cup {Arr(l) : l \in NormLists}
  \cup {Obj([listings |-> Arr(l)]) : l \in NormLists}
  \cup {Obj([listings |-> Arr(l), total |-> Num(Len(l))]) : l \in NormLists}
  \cup {Obj([listings |-> w]) : w \in NormOtherListings}
  \cup {Obj([listings |-> w, make |-> Str(SampleMake)]) : w \in NormOtherListings}
  \cup {MinimalListing, Obj(NoFields)}

NormTexts ==
  {Stringify(v) : v \in NormValues} \cup {CutShort(Stringify(v)) : v \in NormValues}

NormInit ==
  /\ normText \in NormTexts /\ normOut = NotRun /\ ValIdle /\ PipeIdle /\ ConcIdle
  /\ AdminIdle /\ HooksIdle

NormApply ==
  /\ normOut = NotRun
  /\ normOut' = parseAIResponse(normText)
  /\ UNCHANGED <<normText, valVars, pipeVars, restVars>>

NormNext == NormApply

NormSpec == NormInit /\ [][NormNext]_vars

(***************************************************************************)
(* The Listing Validator on its own                                        *)
(***************************************************************************)
MaxEdits == 2

\* the years validateListing can run in
Years == {2025, 2026}

\* a record with every field
FullListing ==
  Obj([make |-> Str(SampleMake), model |-> Str(SampleModel),
       year |-> Num(2019), mileage |-> Num(40000), price |-> Num(12000),
       co2 |-> Num(120), power_kw |-> Num(81), power_hp |-> Num(110),
       number_of_doors |-> Num(5), number_of_seats |-> Num(5),
       fuel_type |-> Str(<<"g", "a", "s">>)])

ListingFields ==
  {"make", "model", "year", "mileage", "price", "co2", "power_kw", "power_hp",
   "number_of_doors", "number_of_seats", "fuel_type"}

\* the values a provider can put in field f; Undefined leaves the field out
FieldOptions(f, now) ==
  CASE f = "make" ->
         {Undefined, Null, Num(1), Str(<<>>), Str(<<" ", "\t">>), Str(<<" ", "A", " ">>)}
    [] f = "model" -> {Undefined, Num(0), Str(<<"\n">>)}
    [] f = "year" ->
         {Undefined, Null, Str(<<"2", "0", "1", "9">>), Num(MinYear - 1), Num(MinYear),
          Num(now + 1), Num(now + 2)}
    [] f \in {"mileage", "price"} -> {Undefined, Null, Num(-1), Num(0), Str(<<"1">>)}
    [] f = "fuel_type" ->
         {Undefined, Null, Num(0), Num(5), Bool(FALSE), Bool(TRUE), Arr(<<>>),
          Str(<<>>), Str(<<"g", "a", "s">>), Str(<<"G", "A", "S">>), Str(<<"P", "l", "u", "g", "-", "I", "n", " ", "H", "y", "b", "r", "i", "d">>),
          Str(Diesel), Str(<<"r", "o", "c", "k", "e", "t">>), Str(<<" ", "g", "a", "s">>),
          Str(<<"C", "o", "n", "s", "t", "r", "u", "c", "t", "o", "r">>)}
    [] OTHER -> {Undefined, Null, Num(-1), Num(0), Str(<<"1">>)}

\* every way to choose a value for each field of F
RECURSIVE EditsOver(_, _)
EditsOver(F, now) ==
  IF F = {} THEN {<<>>}
  ELSE LET f == CHOOSE g \in F : TRUE
       IN {(f :> v) @@ e : v \in FieldOptions(f, now), e \in EditsOver(F \ {f}, now)}

Edits(now) ==
  UNION {EditsOver(F, now) : F \in {G \in SUBSET ListingFields : Cardinality(G) <= MaxEdits}}

\* the record b with the fields of e set, or left out, as e says
ApplyEdits(b, e) ==
  Obj([f \in {g \in DOMAIN b.o \cup DOMAIN e : g \notin DOMAIN e \/ e[g] # Undefined}
         |-> IF f \in DOMAIN e THEN e[f] ELSE b.o[f]])

NonObjects ==
  {Null, Num(0), Num(5), Str(<<"a">>), Bool(TRUE), Arr(<<>>), Arr(<<MinimalListing>>)}

Candidates(now) ==
  NonObjects \cup {ApplyEdits(b, e) : b \in {MinimalListing, FullListing}, e \in Edits(now)}

ValInit ==
  /\ valNow \in Years
  /\ valIn \in Candidates(valNow)
  /\ valOut = NotRun
  /\ NormIdle
  /\ PipeIdle
  /\ ConcIdle
  /\ AdminIdle /\ HooksIdle

ValApply ==
  /\ valOut = NotRun
  /\ valOut' = validateListing(valIn, valNow)
  /\ UNCHANGED <<valIn, valNow, normVars, pipeVars, restVars>>

ValNext == ValApply

ValSpec == ValInit /\ [][ValNext]_vars

(***************************************************************************)
(* Settings Accessor                                                       *)
(***************************************************************************)
GEMINI == <<"g", "e", "m", "i", "n", "i">>
DEEPSEEK == <<"d", "e", "e", "p", "s", "e", "e", "k">>
OPENROUTER == <<"o", "p", "e", "n", "r", "o", "u", "t", "e", "r">>

\* window.location.origin
Origin == Str(<<"h", "t", "t", "p", "s", ":", "/", "/", "a", "p", "p">>)

\* a {data, error} result of supabase.rpc
Reply(data, error) == [data |-> data, error |-> error]

\* an error object of the settings store; isError tells whether it is an
\* instance of Error
StoreError(isError) == [isError |-> isError, msg |-> <<"permission denied">>]

\* error instanceof Error ? error : new Error(fallback)
AsError(e, fallback) == IF e.isError THEN e ELSE Error(<<fallback>>)

\* a getSettings that reads the values of every provider, whatever the tag
ProviderReads_Everything(tag) ==
  <<"get_gemini_apikey", "get_gemini_prompt", "get_deepseek_apikey",
    "get_deepseek_prompt", "get_openrouter_apikey", "get_openrouter_prompt",
    "get_openrouter_site_url", "get_openrouter_site_name">>

\* the reads one Promise.all issues for the provider, in the order issued
ProviderReads(tag) ==
  CASE tag = GEMINI -> <<"get_gemini_apikey", "get_gemini_prompt">>
    [] tag = DEEPSEEK -> <<"get_deepseek_apikey", "get_deepseek_prompt">>
    [] tag = OPENROUTER ->
         <<"get_openrouter_apikey", "get_openrouter_prompt",
           "get_openrouter_site_url", "get_openrouter_site_name">>
    [] OTHER -> <<>>

\* the set of the elements of a sequence
Range(q) == {q[i] : i \in DOMAIN q}

\* case 'gemini': after Promise.all
GeminiSettings(r) ==
  IF r["get_gemini_apikey"].error # Null THEN Throw(r["get_gemini_apikey"].error)
  ELSE IF r["get_gemini_prompt"].error # Null THEN Throw(r["get_gemini_prompt"].error)
  ELSE Return(Obj([gemini_api_key |-> OrElse(r["get_gemini_apikey"].data, Str(<<>>)),
                   gemini_prompt |-> OrElse(r["get_gemini_prompt"].data, Str(<<>>)),
                   ai_provider |-> Str(GEMINI)]))

\* case 'deepseek': after Promise.all
DeepseekSettings(r) ==
  IF r["get_deepseek_apikey"].error # Null THEN Throw(r["get_deepseek_apikey"].error)
  ELSE IF r["get_deepseek_prompt"].error # Null THEN Throw(r["get_deepseek_prompt"].error)
  ELSE Return(Obj([deepseek_api_key |-> OrElse(r["get_deepseek_apikey"].data, Str(<<>>)),
                   deepseek_prompt |-> OrElse(r["get_deepseek_prompt"].data, Str(<<>>)),
                   ai_provider |-> Str(DEEPSEEK)]))

\* case 'openrouter': after Promise.all
OpenRouterSettings(r) ==
  IF r["get_openrouter_apikey"].error # Null
  THEN Throw(r["get_openrouter_apikey"].error)
  ELSE IF r["get_openrouter_prompt"].error # Null
  THEN Throw(r["get_openrouter_prompt"].error)
  ELSE IF r["get_openrouter_site_url"].error # Null
  THEN Throw(r["get_openrouter_site_url"].error)
  ELSE IF r["get_openrouter_site_name"].error # Null
  THEN Throw(r["get_openrouter_site_name"].error)
  ELSE Return(Obj([openrouter_api_key |-> OrElse(r["get_openrouter_apikey"].data, Str(<<>>)),
                   openrouter_prompt |-> OrElse(r["get_openrouter_prompt"].data, Str(<<>>)),
                   site_url |-> OrElse(r["get_openrouter_site_url"].data, Origin),
                   site_name |-> OrElse(r["get_openrouter_site_name"].data, Str(<<"B", "a", "n", "a", "n", "a", "D", "B">>)),
                   ai_provider |-> Str(OPENROUTER)]))

\* the switch of getSettings once the provider's reads have completed
MergeSettings(tag, r) ==
  CASE tag = GEMINI -> GeminiSettings(r)
    [] tag = DEEPSEEK -> DeepseekSettings(r)
    [] tag = OPENROUTER -> OpenRouterSettings(r)

(***************************************************************************)
(* Provider Adapters                                                       *)
(***************************************************************************)
\* the adapter's key test without trim()
KeyMissing_NoTrim(apiKey) == apiKey.t \in {"undef", "null"} \/ ~Truthy(apiKey)

\* !apiKey?.trim()
KeyMissing(apiKey) ==
  apiKey.t \in {"undef", "null"} \/ ~Truthy(Str(Trim(apiKey.s)))

\* the outbound request of an adapter
Request(to, prompt, data, apiKey, extras) ==
  [to |-> to, prompt |-> prompt, rawData |-> data, apiKey |-> Trim(apiKey.s),
   extras |-> extras]

\* parseWithGemini up to generateContent
StartGemini(prompt, data, apiKey) ==
  IF KeyMissing(apiKey) THEN Throw(Error(<<"Gemini API key is required">>))
  ELSE Return(Request(GEMINI, prompt, data, apiKey, <<>>))

\* parseWithDeepseek up to fetch
StartDeepseek(prompt, data, apiKey) ==
  IF KeyMissing(apiKey) THEN Throw(Error(<<"Deepseek API key is required">>))
  ELSE Return(Request(DEEPSEEK, prompt, data, apiKey, <<>>))

\* parseWithOpenRouter up to fetch
StartOpenRouter(prompt, data, apiKey, siteUrl, siteName) ==
  IF KeyMissing(apiKey) THEN Throw(Error(<<"OpenRouter API key is required">>))
  ELSE Return(Request(OPENROUTER, prompt, data, apiKey, <<siteUrl, siteName>>))

\* error.error?.message of an error body; null.error throws
ErrorBodyMessage(body) ==
  IF body.t \in {"undef", "null"}
  THEN Throw(Error(<<"Cannot read properties of null (reading 'error')">>))
  ELSE IF Get(body, "error").t \in {"undef", "null"} THEN Return(Undefined)
  ELSE Return(Get(Get(body, "error"), "message"))

\* data.choices[0]?.message?.content; data.choices of null and
\* undefined[0] throw
CompletionContent(data) ==
  IF data.t \in {"undef", "null"}
  THEN Throw(Error(<<"Cannot read properties of null (reading 'choices')">>))
  ELSE IF Get(data, "choices").t \in {"undef", "null"}
  THEN Throw(Error(<<"Cannot read properties of undefined (reading '0')">>))
  ELSE LET choices == Get(data, "choices")
           first == IF choices.t = "arr" /\ choices.a # <<>> THEN choices.a[1]
                    ELSE Undefined
           message == IF first.t \in {"undef", "null"} THEN Undefined
                      ELSE Get(first, "message")
       IN Return(IF message.t \in {"undef", "null"} THEN Undefined
                 ELSE Get(message, "content"))

\* parseWithDeepseek / parseWithOpenRouter after fetch resolved with resp:
\* name is the provider's name in the messages
ChatCompletionResult(name, resp) ==
  IF ~resp.json.ok THEN resp.json
  ELSE IF ~resp.ok
  THEN LET m == ErrorBodyMessage(resp.json.val) IN
       IF ~m.ok THEN m
       ELSE IF Truthy(m.val) THEN Throw(Error(m.val.s))
       ELSE Throw(Error(<<"Failed to get response from ", name>>))
  ELSE LET c == CompletionContent(resp.json.val) IN
       IF ~c.ok THEN c
       ELSE IF ~Truthy(c.val)
       THEN Throw(Error(<<"No content in ", name, " response">>))
       ELSE parseAIResponse(c.val.s)

(***************************************************************************)
(* parseCarListing                                                         *)
(***************************************************************************)
\* the switch on settings.ai_provider, up to the adapter's request
StartAdapter(s, data) ==
  IF Get(s, "ai_provider") = Str(OPENROUTER)
  THEN IF ~Truthy(Get(s, "openrouter_api_key"))
       THEN Throw(Error(<<"OpenRouter API key is required">>))
       ELSE IF ~Truthy(Get(s, "openrouter_prompt"))
       THEN Throw(Error(<<"OpenRouter prompt is required">>))
       ELSE StartOpenRouter(Get(s, "openrouter_prompt"), data,
                            Get(s, "openrouter_api_key"),
                            OrElse(Get(s, "site_url"), Origin),
                            OrElse(Get(s, "site_name"), Str(<<"B", "a", "n", "a", "n", "a", "D", "B">>)))
  ELSE IF Get(s, "ai_provider") = Str(DEEPSEEK)
  THEN IF ~Truthy(Get(s, "deepseek_api_key"))
       THEN Throw(Error(<<"Deepseek API key is required">>))
       ELSE IF ~Truthy(Get(s, "deepseek_prompt"))
       THEN Throw(Error(<<"Deepseek prompt is required">>))
       ELSE StartDeepseek(Get(s, "deepseek_prompt"), data, Get(s, "deepseek_api_key"))
  ELSE IF ~Truthy(Get(s, "gemini_api_key"))
       THEN Throw(Error(<<"Gemini API key is required">>))
       ELSE IF ~Truthy(Get(s, "gemini_prompt"))
       THEN Throw(Error(<<"Gemini prompt is required">>))
       ELSE StartGemini(Get(s, "gemini_prompt"), data, Get(s, "gemini_api_key"))

\* a filter that gives up at the first record that fails validation
RECURSIVE FilterValid_StopAtInvalid(_, _)
FilterValid_StopAtInvalid(list, year) ==
  IF list = <<>> THEN <<>>
  ELSE LET v == validateListing(Head(list), year)
       IN IF v.ret THEN <<v.listing>> \o FilterValid_StopAtInvalid(Tail(list), year)
          ELSE <<>>

\* parsedListings.filter(validateListing): the records kept, as
\* validateListing left them
RECURSIVE FilterValid(_, _)
FilterValid(list, year) ==
  IF list = <<>> THEN <<>>
  ELSE LET v == validateListing(Head(list), year)
       IN (IF v.ret THEN <<v.listing>> ELSE <<>>) \o FilterValid(Tail(list), year)

\* the end of parseCarListing without the test for an empty result
ValidateAll_NoEmptyCheck(list, year) == Return(FilterValid(list, year))

\* the end of parseCarListing, from the adapter's list on
ValidateAll(list, year) ==
  LET validListings == FilterValid(list, year) IN
  IF Len(validListings) = 0
  THEN Throw(Error(<<"No valid listings found in the response">>))
  ELSE Return(validListings)

(***************************************************************************)
(* The pipeline's inputs: the text to parse, the answers of the settings   *)
(* store and the answers of the provider                                   *)
(***************************************************************************)
RawInputs == {<<>>, <<" ", "\n">>, <<"V", "W">>, <<" ", "V", "W", " ">>}

StoreErrors == {StoreError(TRUE), StoreError(FALSE)}

\* two invocations are under way: each answer is then drawn from a few
\* values, one for each way the code goes on
TwoInvocations == parked # NotRun

ProviderReplies ==
  IF TwoInvocations
  THEN {Reply(Str(GEMINI), Null), Reply(Str(DEEPSEEK), Null), Reply(Null, StoreError(FALSE))}
  ELSE {Reply(d, Null) : d \in {Null, Str(<<>>), Str(GEMINI), Str(DEEPSEEK), Str(OPENROUTER),
                                Str(<<"c", "l", "a", "u", "d", "e">>)}}
       \cup {Reply(Null, e) : e \in StoreErrors}

\* the answers the store can give to a read of the provider's values
ReadReplies(name) ==
  IF TwoInvocations
  THEN IF name \in {"get_gemini_apikey", "get_deepseek_apikey"}
       THEN {Reply(Str(<<" ", "k">>), Null), Reply(Null, StoreError(TRUE))}
       ELSE {Reply(Str(<<"p">>), Null), Reply(Str(<<>>), Null)}
  ELSE
  {Reply(Null, e) : e \in StoreErrors} \cup
  {Reply(d, Null) : d \in
     CASE name \in {"get_gemini_apikey", "get_deepseek_apikey", "get_openrouter_apikey"} ->
            {Null, Str(<<>>), Str(<<" ">>), Str(<<" ", "k">>)}
       [] name \in {"get_gemini_prompt", "get_deepseek_prompt", "get_openrouter_prompt"} ->
            {Null, Str(<<>>), Str(<<"p">>)}
       [] OTHER -> {Null, Str(<<"s">>)}}

\* the candidate records of the provider's answers; the year of the last
\* one is valid in some of Years only
PipeCandidates ==
  {MinimalListing,
   Put(MinimalListing, "fuel_type", Str(<<"G", "A", "S">>)),
   Put(MinimalListing, "make", Str(<<" ">>)),
   Put(MinimalListing, "year", Num(2027)),
   Num(5)}

PipeLists == SeqsUpTo(PipeCandidates, MaxListings)

PipeTexts ==
  {Stringify(Arr(l)) : l \in PipeLists}
  \cup {Stringify(Obj([listings |-> Arr(l)])) : l \in PipeLists}
  \cup {Stringify(v) : v \in {MinimalListing, Null, Num(5)}}
  \cup {CutShort(Stringify(MinimalListing)), <<>>}

\* the texts of the answers when two invocations are under way
FewTexts ==
  {Stringify(Arr(<<Put(MinimalListing, "fuel_type", Str(<<"G", "A", "S">>))>>)), <<>>}

\* what generateContent and response.text() can give
GeminiResults ==
  {Throw(Error(<<"[GoogleGenerativeAI Error]: request failed">>))}
  \cup {Return(t) : t \in IF TwoInvocations THEN FewTexts ELSE PipeTexts}

\* a chat-completions body carrying the content
Completion(content) ==
  Obj([choices |-> Arr(<<Obj([message |-> Obj([content |-> content])])>>)])

\* the bodies of a response with a success status
OkBodies ==
  {Completion(Str(t)) : t \in PipeTexts}
  \cup {Completion(Null), Obj([choices |-> Arr(<<Obj(NoFields)>>)]),
        Obj([choices |-> Arr(<<>>)]), Obj(NoFields), Null}

\* the bodies of a response with another status
ErrorBodies ==
  {Obj([error |-> Obj([message |-> Str(<<"r", "a", "t", "e", " ", "l", "i", "m", "i", "t", "e", "d">>)])]), Obj([error |-> Obj(NoFields)]),
   Obj(NoFields), Null}

BodySyntaxError == Throw(Error(<<"SyntaxError: Unexpected token < in JSON">>))

\* a Response: its ok flag and what response.json() will give
Response(ok, json) == [ok |-> ok, json |-> json]

\* what fetch can give
FetchResults ==
  {Throw(Error(<<"TypeError: Failed to fetch">>))}
  \cup IF TwoInvocations
       THEN {Return(Response(TRUE, Return(Completion(Str(t))))) : t \in FewTexts}
            \cup {Return(Response(FALSE, Return(Obj([error |-> Obj(NoFields)]))))}
       ELSE {Return(Response(TRUE, Return(b))) : b \in OkBodies}
            \cup {Return(Response(FALSE, Return(b))) : b \in ErrorBodies}
            \cup {Return(Response(b, BodySyntaxError)) : b \in BOOLEAN}

(***************************************************************************)
(* One invocation of parseCarListing, one action for each stretch of code  *)
(* between two awaits                                                      *)
(***************************************************************************)
Init ==
  /\ rawData \in RawInputs
  /\ thisYear \in Years
  /\ pc = "start"
  /\ rpcLog = <<>> /\ pending = {} /\ replies = <<>>
  /\ settings = NotRun /\ requests = <<>> /\ response = NotRun
  /\ parsedListings = NotRun /\ outcome = NotRun
  /\ NormIdle /\ ValIdle /\ ConcIdle /\ AdminIdle /\ HooksIdle

\* const currentProvider = provider || 'gemini'
CurrentProvider == OrElse(replies["get_ai_provider"].data, Str(GEMINI))

\* parseCarListing throws e through its catch block
Fails(e) ==
  /\ outcome' = Throw(AsError(e, "Failed to parse car listing data"))
  /\ pc' = "done"

\* getSettings throws e through its catch block, and parseCarListing's
SettingsFail(e) == Fails(AsError(e, "Failed to load AI settings"))

\* the adapter returned or threw: the rest of parseCarListing
Finish(a) ==
  /\ pc' = "done"
  /\ IF a.ok
     THEN /\ parsedListings' = Arr(a.val)
          /\ outcome' = LET v == ValidateAll(a.val, thisYear) IN
                        IF v.ok THEN v
                        ELSE Throw(AsError(v.err, "Failed to parse car listing data"))
     ELSE /\ parsedListings' = parsedListings
          /\ outcome' = Throw(AsError(a.err, "Failed to parse car listing data"))

\* parseCarListing is called: the blank test, then getSettings up to its
\* first await
Call ==
  /\ pc = "start"
  /\ IF ~Truthy(Str(Trim(rawData)))
     THEN /\ outcome' = Throw(Error(<<"No data provided">>))
          /\ pc' = "done"
          /\ UNCHANGED <<rpcLog, pending>>
     ELSE /\ rpcLog' = Append(rpcLog, "get_ai_provider")
          /\ pending' = {"get_ai_provider"}
          /\ pc' = "awaitProvider"
          /\ UNCHANGED outcome
  /\ UNCHANGED <<rawData, thisYear, replies, settings, requests, response,
                 parsedListings, normVars, valVars, restVars>>

\* get_ai_provider completes, and the switch sends every tag it does not
\* know to the gemini case
ProviderRead_DefaultsToGemini ==
  /\ pc = "awaitProvider"
  /\ \E reply \in ProviderReplies :
       /\ replies' = ("get_ai_provider" :> reply) @@ replies
       /\ LET currentProvider == OrElse(reply.data, Str(GEMINI)) IN
          IF reply.error # Null
          THEN SettingsFail(reply.error) /\ pending' = {} /\ UNCHANGED rpcLog
          ELSE LET tag == IF currentProvider.s \in {DEEPSEEK, OPENROUTER}
                          THEN currentProvider.s ELSE GEMINI
               IN /\ rpcLog' = rpcLog \o ProviderReads(tag)
                  /\ pending' = Range(ProviderReads(tag))
                  /\ pc' = "awaitReads"
                  /\ UNCHANGED outcome
  /\ UNCHANGED <<rawData, thisYear, settings, requests, response, parsedListings,
                 normVars, valVars, restVars>>

\* get_ai_provider completes: the provider's reads are issued together
ProviderRead ==
  /\ pc = "awaitProvider"
  /\ \E reply \in ProviderReplies :
       /\ replies' = ("get_ai_provider" :> reply) @@ replies
       /\ LET currentProvider == OrElse(reply.data, Str(GEMINI)) IN
          IF reply.error # Null
          THEN SettingsFail(reply.error) /\ pending' = {} /\ UNCHANGED rpcLog
          ELSE IF currentProvider.s \in {GEMINI, DEEPSEEK, OPENROUTER}
          THEN /\ rpcLog' = rpcLog \o ProviderReads(currentProvider.s)
               /\ pending' = Range(ProviderReads(currentProvider.s))
               /\ pc' = "awaitReads"
               /\ UNCHANGED outcome
          ELSE /\ SettingsFail(Error(<<"Unknown AI provider: ">> \o currentProvider.s))
               /\ pending' = {}
               /\ UNCHANGED rpcLog
  /\ UNCHANGED <<rawData, thisYear, settings, requests, response, parsedListings,
                 normVars, valVars, restVars>>

\* one of the reads in flight completes, and an error in it ends getSettings
\* without waiting for the reads still in flight
ReadCompletes_FailFast ==
  /\ pc = "awaitReads"
  /\ \E name \in pending :
       \E reply \in ReadReplies(name) :
         /\ replies' = (name :> reply) @@ replies
         /\ pending' = pending \ {name}
         /\ IF reply.error # Null
            THEN SettingsFail(reply.error)
            ELSE UNCHANGED <<pc, outcome>>
  /\ UNCHANGED <<rawData, thisYear, rpcLog, settings, requests, response,
                 parsedListings, normVars, valVars, restVars>>

\* one of the reads in flight completes
ReadCompletes ==
  /\ pc = "awaitReads"
  /\ \E name \in pending :
       \E reply \in ReadReplies(name) :
         /\ replies' = (name :> reply) @@ replies
         /\ pending' = pending \ {name}
  /\ UNCHANGED <<rawData, thisYear, pc, rpcLog, settings, requests, response,
                 parsedListings, outcome, normVars, valVars, restVars>>

\* Promise.all resolved: getSettings returns or throws, and parseCarListing
\* runs up to the adapter's request
SettingsLoaded ==
  /\ pc = "awaitReads"
  /\ pending = {}
  /\ LET m == MergeSettings(CurrentProvider.s, replies) IN
     IF ~m.ok
     THEN SettingsFail(m.err) /\ UNCHANGED <<settings, requests>>
     ELSE /\ settings' = m.val
          /\ LET a == StartAdapter(m.val, rawData) IN
             IF a.ok
             THEN /\ requests' = Append(requests, a.val)
                  /\ pc' = "awaitResponse"
                  /\ UNCHANGED outcome
             ELSE Fails(a.err) /\ UNCHANGED requests
  /\ UNCHANGED <<rawData, thisYear, rpcLog, pending, replies, response,
                 parsedListings, normVars, valVars, restVars>>

\* generateContent settles: the rest of parseWithGemini and of parseCarListing
GeminiResponds ==
  /\ pc = "awaitResponse"
  /\ requests[Len(requests)].to = GEMINI
  /\ \E r \in GeminiResults :
       /\ response' = (IF r.ok THEN [text |-> r.val] ELSE response)
       /\ Finish(IF r.ok THEN parseAIResponse(r.val) ELSE r)
  /\ UNCHANGED <<rawData, thisYear, rpcLog, pending, replies, settings, requests,
                 normVars, valVars, restVars>>

\* fetch settles, and a thrown error makes the adapter send the request again
FetchResponds_Retry ==
  /\ pc = "awaitResponse"
  /\ requests[Len(requests)].to \in {DEEPSEEK, OPENROUTER}
  /\ \E r \in FetchResults :
       IF r.ok
       THEN response' = r.val /\ pc' = "awaitBody" /\ UNCHANGED requests
       ELSE /\ requests' = Append(requests, requests[Len(requests)])
            /\ UNCHANGED <<response, pc>>
  /\ UNCHANGED <<rawData, thisYear, rpcLog, pending, replies, settings, outcome,
                 parsedListings, normVars, valVars, restVars>>

\* fetch settles: a thrown error ends the invocation, a Response is read next
FetchResponds ==
  /\ pc = "awaitResponse"
  /\ requests[Len(requests)].to \in {DEEPSEEK, OPENROUTER}
  /\ \E r \in FetchResults :
       IF r.ok
       THEN response' = r.val /\ pc' = "awaitBody" /\ UNCHANGED outcome
       ELSE Fails(r.err) /\ UNCHANGED response
  /\ UNCHANGED <<rawData, thisYear, rpcLog, pending, replies, settings, requests,
                 parsedListings, normVars, valVars, restVars>>

\* response.json() settles: the rest of the adapter and of parseCarListing
BodyRead ==
  /\ pc = "awaitBody"
  /\ Finish(ChatCompletionResult(
       IF requests[Len(requests)].to = DEEPSEEK THEN "Deepseek" ELSE "OpenRouter",
       response))
  /\ UNCHANGED <<rawData, thisYear, rpcLog, pending, replies, settings, requests,
                 response, normVars, valVars, restVars>>

Next ==
  \/ Call
  \/ ProviderRead
  \/ ReadCompletes
  \/ SettingsLoaded
  \/ GeminiResponds
  \/ FetchResponds
  \/ BodyRead

Spec == Init /\ [][Next]_vars

(***************************************************************************)
(* Two invocations of parseCarListing under way at once.  One continuation *)
(* runs at a time; at an await the other invocation may run.  What an      *)
(* invocation keeps across an await is its argument and its local          *)
(* constants; the module has no variable of its own.                       *)
(***************************************************************************)
\* the argument and the locals of the invocation that runs
Frame ==
  [rawData |-> rawData, pc |-> pc, rpcLog |-> rpcLog, pending |-> pending,
   replies |-> replies, settings |-> settings, requests |-> requests,
   response |-> response, parsedListings |-> parsedListings, outcome |-> outcome]

\* an invocation that has not started
NewFrame(data) ==
  [rawData |-> data, pc |-> "start", rpcLog |-> <<>>, pending |-> {},
   replies |-> <<>>, settings |-> NotRun, requests |-> <<>>,
   response |-> NotRun, parsedListings |-> NotRun, outcome |-> NotRun]

ConcInit ==
  /\ rawData = <<"V", "W">>
  /\ thisYear \in Years
  /\ pc = "start"
  /\ rpcLog = <<>> /\ pending = {} /\ replies = <<>>
  /\ settings = NotRun /\ requests = <<>> /\ response = NotRun
  /\ parsedListings = NotRun /\ outcome = NotRun
  /\ parked \in {NewFrame(d) : d \in {<<" ", "V", "W", " ">>, <<" ", "\n">>}}
  /\ NormIdle /\ ValIdle /\ AdminIdle /\ HooksIdle

\* the other invocation runs next, and the requests sent are kept in one
\* list of the module that both invocations append to
Switch_SharedRequests ==
  /\ TwoInvocations
  /\ parked' = Frame
  /\ rawData' = parked.rawData /\ pc' = parked.pc
  /\ rpcLog' = parked.rpcLog /\ pending' = parked.pending
  /\ replies' = parked.replies /\ settings' = parked.settings
  /\ response' = parked.response
  /\ parsedListings' = parked.parsedListings /\ outcome' = parked.outcome
  /\ UNCHANGED <<requests, thisYear, normVars, valVars, adminVars, hookVars>>

\* the other invocation runs next: it finds its own argument and locals
Switch ==
  /\ TwoInvocations
  /\ parked' = Frame
  /\ rawData' = parked.rawData /\ pc' = parked.pc
  /\ rpcLog' = parked.rpcLog /\ pending' = parked.pending
  /\ replies' = parked.replies /\ settings' = parked.settings
  /\ requests' = parked.requests /\ response' = parked.response
  /\ parsedListings' = parked.parsedListings /\ outcome' = parked.outcome
  /\ UNCHANGED <<thisYear, normVars, valVars, adminVars, hookVars>>

ConcNext == Next \/ Switch

ConcSpec == ConcInit /\ [][ConcNext]_vars

(***************************************************************************)
(* AdminSettings: the component's state, its handlers, and the remote      *)
(* calls they await.  A handler suspended at an await is an element of     *)
(* ops; the settings store holds one value for each field.                 *)
(***************************************************************************)
TextFields ==
  {"gemini_api_key", "gemini_prompt", "deepseek_api_key", "deepseek_prompt",
   "openrouter_api_key", "openrouter_prompt", "site_url", "site_name"}

SettingsFields == TextFields \cup {"ai_provider"}

\* the value a field gets when the store holds none
FieldDefault(f) ==
  CASE f = "site_url" -> Origin
    [] f = "site_name" -> Str(<<"B", "a", "n", "a", "n", "a", "D", "B">>)
    [] f = "ai_provider" -> Str(GEMINI)
    [] OTHER -> Str(<<>>)

defaultSettings == [f \in SettingsFields |-> FieldDefault(f)]

\* the field of the store a set_ call writes
StoreField(name) ==
  CASE name = "set_gemini_apikey" -> "gemini_api_key"
    [] name = "set_gemini_prompt" -> "gemini_prompt"
    [] name = "set_deepseek_apikey" -> "deepseek_api_key"
    [] name = "set_deepseek_prompt" -> "deepseek_prompt"
    [] name = "set_openrouter_apikey" -> "openrouter_api_key"
    [] name = "set_openrouter_prompt" -> "openrouter_prompt"
    [] name = "set_openrouter_site_url" -> "site_url"
    [] name = "set_openrouter_site_name" -> "site_name"
    [] name = "set_ai_provider" -> "ai_provider"

\* the set_ calls of the Promise.all of a save handler
SaveCalls(kind) ==
  CASE kind = "handleSaveGemini" -> {"set_gemini_apikey", "set_gemini_prompt"}
    [] kind = "handleSaveDeepseek" -> {"set_deepseek_apikey", "set_deepseek_prompt"}
    [] kind = "handleSaveOpenRouter" ->
         {"set_openrouter_apikey", "set_openrouter_prompt",
          "set_openrouter_site_url", "set_openrouter_site_name"}

\* the handlers that await remote calls; loadSettings stands for the call
\* of loadSettings by the effect
Kinds ==
  {"loadSettings", "handleSaveGemini", "handleSaveDeepseek", "handleSaveOpenRouter",
   "handleUpdateProvider"}

\* a handler suspended at an await: at the Promise.all of its set_ calls
\* (phase set), or inside loadSettings at the Promise.all of the reads
\* (phase load)
Op(kind, phase, pendingCalls, sent) ==
  [kind |-> kind, phase |-> phase, pending |-> pendingCalls, failed |-> FALSE,
   sent |-> sent]

\* the handlers that can be suspended at once in the runs explored
MaxOps == 2

\* the in-progress flag of a handler
Flag(kind) ==
  CASE kind = "handleSaveGemini" -> isSavingGemini
    [] kind = "handleSaveDeepseek" -> isSavingDeepseek
    [] kind = "handleSaveOpenRouter" -> isSavingOpenRouter
    [] kind = "handleUpdateProvider" -> isUpdatingProvider
    [] kind = "loadSettings" -> loading

\* setIsSavingGemini(v), setIsSavingDeepseek(v), setIsSavingOpenRouter(v) or
\* setIsUpdatingProvider(v), the one of the handler
SetFlag(kind, v) ==
  /\ isSavingGemini' = (IF kind = "handleSaveGemini" THEN v ELSE isSavingGemini)
  /\ isSavingDeepseek' = (IF kind = "handleSaveDeepseek" THEN v ELSE isSavingDeepseek)
  /\ isSavingOpenRouter' = (IF kind = "handleSaveOpenRouter" THEN v ELSE isSavingOpenRouter)
  /\ isUpdatingProvider' = (IF kind = "handleUpdateProvider" THEN v ELSE isUpdatingProvider)

flagVars == <<isSavingGemini, isSavingDeepseek, isSavingOpenRouter, isUpdatingProvider>>

ProviderTags == {Str(GEMINI), Str(DEEPSEEK), Str(OPENROUTER)}

\* what the store holds when the component mounts
StoreInits ==
  {[f \in SettingsFields |-> IF f = "ai_provider" THEN p ELSE FieldDefault(f)] :
     p \in {Null, Str(DEEPSEEK)}}

Message(type, text) == [type |-> type, text |-> text]

\* the component has mounted and its effect has called loadSettings
AdminInit ==
  /\ loading = TRUE
  /\ loadError = Null
  /\ formSettings = defaultSettings
  /\ isSavingGemini = FALSE /\ isSavingDeepseek = FALSE /\ isSavingOpenRouter = FALSE
  /\ isUpdatingProvider = FALSE
  /\ formMessage = Null
  /\ store \in StoreInits
  /\ ops = {Op("loadSettings", "load", {}, <<>>)}
  /\ NormIdle /\ ValIdle /\ PipeIdle /\ ConcIdle /\ HooksIdle

\* a form is submitted: its handler up to the Promise.all of the set_ calls.
\* The form is rendered when loading is false, and its button is disabled
\* while the handler's flag is set
Save(kind) ==
  /\ Cardinality(ops) < MaxOps
  /\ ~loading
  /\ ~Flag(kind)
  /\ SetFlag(kind, TRUE)
  /\ formMessage' = Null
  /\ ops' = ops \cup {Op(kind, "set", SaveCalls(kind),
                          [name \in SaveCalls(kind) |-> formSettings[StoreField(name)]])}
  /\ UNCHANGED <<loading, loadError, formSettings, store,
                 normVars, valVars, pipeVars, parked, hookVars>>

handleSaveGemini == Save("handleSaveGemini")

handleSaveDeepseek == Save("handleSaveDeepseek")

handleSaveOpenRouter == Save("handleSaveOpenRouter")

\* a provider is selected, and the handler looks at settings.ai_provider only
handleUpdateProvider_NoBusyGuard ==
  /\ Cardinality(ops) < MaxOps
  /\ ~loading
  /\ \E provider \in ProviderTags :
       IF provider = formSettings["ai_provider"]
       THEN UNCHANGED <<flagVars, formMessage, ops>>
       ELSE /\ SetFlag("handleUpdateProvider", TRUE)
            /\ formMessage' = Null
            /\ ops' = ops \cup {Op("handleUpdateProvider", "set", {"set_ai_provider"},
                                    [name \in {"set_ai_provider"} |-> provider])}
  /\ UNCHANGED <<loading, loadError, formSettings, store,
                 normVars, valVars, pipeVars, parked, hookVars>>

\* a provider is selected: handleUpdateProvider up to its await
handleUpdateProvider ==
  /\ Cardinality(ops) < MaxOps
  /\ ~loading
  /\ \E provider \in ProviderTags :
       IF provider = formSettings["ai_provider"] \/ isUpdatingProvider
       THEN UNCHANGED <<flagVars, formMessage, ops>>
       ELSE /\ SetFlag("handleUpdateProvider", TRUE)
            /\ formMessage' = Null
            /\ ops' = ops \cup {Op("handleUpdateProvider", "set", {"set_ai_provider"},
                                    [name \in {"set_ai_provider"} |-> provider])}
  /\ UNCHANGED <<loading, loadError, formSettings, store,
                 normVars, valVars, pipeVars, parked, hookVars>>

\* the set_ calls of a handler have all completed, and a handler without a
\* finally block goes on: an error leaves its flag set
AfterSets_NoFinally(op, done) ==
  IF done.failed
  THEN /\ formMessage' = Message("error", <<"Failed to save settings">>)
       /\ ops' = ops \ {op}
       /\ UNCHANGED <<loading, loadError, flagVars>>
  ELSE /\ formMessage' = Message("success", <<"saved successfully">>)
       /\ loading' = TRUE
       /\ loadError' = Null
       /\ ops' = (ops \ {op}) \cup {[done EXCEPT !.phase = "load"]}
       /\ UNCHANGED flagVars

\* the set_ calls of a handler have all completed: the rest of its try
\* block up to the await in loadSettings, or its catch and finally blocks
AfterSets(op, done) ==
  IF done.failed
  THEN /\ formMessage' = Message("error", <<"Failed to save settings">>)
       /\ SetFlag(op.kind, FALSE)
       /\ ops' = ops \ {op}
       /\ UNCHANGED <<loading, loadError>>
  ELSE /\ formMessage' = Message("success", <<"saved successfully">>)
       /\ loading' = TRUE
       /\ loadError' = Null
       /\ ops' = (ops \ {op}) \cup {[done EXCEPT !.phase = "load"]}
       /\ UNCHANGED flagVars

\* one set_ call of a handler completes: the store takes the value unless
\* the call answers with an error; the handler goes on when it was the last
SetSettles(kind) ==
  /\ \E op \in ops :
       /\ op.kind = kind
       /\ op.phase = "set"
       /\ \E name \in op.pending, ok \in BOOLEAN :
            LET done == [op EXCEPT !.pending = @ \ {name}, !.failed = @ \/ ~ok] IN
            /\ store' = (IF ok THEN [store EXCEPT ![StoreField(name)] = op.sent[name]]
                         ELSE store)
            /\ IF done.pending # {}
               THEN /\ ops' = (ops \ {op}) \cup {done}
                    /\ UNCHANGED <<loading, loadError, flagVars, formMessage>>
               ELSE AfterSets(op, done)
  /\ UNCHANGED <<formSettings, normVars, valVars, pipeVars, parked, hookVars>>

\* the reads of a loadSettings have all completed: setSettings with what the
\* store holds and can be read, or the catch block; then setLoading(false),
\* and the finally block of the handler that awaited loadSettings
LoadSettled(kind) ==
  /\ \E op \in ops :
       /\ op.kind = kind
       /\ op.phase = "load"
       /\ \E result \in {"data", "no data", "rejected"} :
            IF result = "rejected"
            THEN /\ loadError' = Str(<<"Failed to fetch">>)
                 /\ UNCHANGED formSettings
            ELSE /\ formSettings' =
                      [f \in SettingsFields |->
                         OrElse(IF result = "data" THEN store[f] ELSE Null, FieldDefault(f))]
                 /\ UNCHANGED loadError
       /\ ops' = ops \ {op}
  /\ loading' = FALSE
  /\ IF kind = "loadSettings" THEN UNCHANGED flagVars ELSE SetFlag(kind, FALSE)
  /\ UNCHANGED <<formMessage, store, normVars, valVars, pipeVars, parked, hookVars>>

\* a remote call of a handler completes
Settle(kind) ==
  \/ SetSettles(kind)
  \/ LoadSettled(kind)

AdminNext ==
  \/ handleSaveGemini
  \/ handleSaveDeepseek
  \/ handleSaveOpenRouter
  \/ handleUpdateProvider
  \/ \E kind \in Kinds : Settle(kind)

AdminSpec == AdminInit /\ [][AdminNext]_vars

\* every remote call that is in flight completes
AdminFairSpec == AdminSpec /\ \A kind \in Kinds : WF_vars(Settle(kind))

(***************************************************************************)
(* Claims                                                                  *)
(***************************************************************************)
\* the string holds white space only, or nothing
Blank(str) == \A i \in DOMAIN str : str[i] \in WhiteSpace

\* the candidate passes validateListing in the invocation's year
Passes(c) == validateListing(c, thisYear).ret

\* C1: every successful return of parseCarListing is a non-empty list: when
\* the adapter call succeeds but no candidate passes validateListing,
\* parseCarListing fails with 'No valid listings found in the response'.
C1_SuccessIsNonEmpty ==
  /\ (outcome # NotRun /\ outcome.ok) => Len(outcome.val) >= 1
  /\ ( /\ pc = "done"
       /\ parsedListings # NotRun
       /\ \A i \in DOMAIN parsedListings.a : ~Passes(parsedListings.a[i]) )
       => outcome = Throw(Error(<<"No valid listings found in the response">>))

\* the adapter returned one record, with a blank make, and the invocation
\* failed
C1_Witness ==
  /\ pc = "done"
  /\ parsedListings = Arr(<<Put(MinimalListing, "make", Str(<<" ">>))>>)
  /\ outcome = Throw(Error(<<"No valid listings found in the response">>))

\* C2: for every rawData that is empty or white space only, parseCarListing
\* fails with 'No data provided' before any remote call: no settings-store
\* read and no provider request is issued.
C2_BlankInputNoCalls ==
  (pc # "start" /\ Blank(rawData)) =>
    /\ pc = "done"
    /\ outcome = Throw(Error(<<"No data provided">>))
    /\ rpcLog = <<>>
    /\ requests = <<>>

\* a white-space-only input has been rejected
C2_Witness ==
  /\ pc = "done"
  /\ rawData = <<" ", "\n">>
  /\ outcome = Throw(Error(<<"No data provided">>))

\* C3: when the adapter call succeeds and some record passes validateListing,
\* parseCarListing returns exactly the records of the adapter's list that
\* pass, in their original order (as validateListing left them); the others
\* are dropped without an error.
C3_ReturnsPassingInOrder ==
  (pc = "done" /\ parsedListings # NotRun) =>
    LET kept == SelectSeq(parsedListings.a, Passes) IN
    kept # <<>> =>
      outcome = Return([i \in DOMAIN kept |-> validateListing(kept[i], thisYear).listing])

\* of three records the middle one failed validation and the other two
\* were returned in order
C3_Witness ==
  /\ pc = "done"
  /\ parsedListings = Arr(<<Put(MinimalListing, "fuel_type", Str(<<"G", "A", "S">>)),
                            Put(MinimalListing, "make", Str(<<" ">>)),
                            MinimalListing>>)
  /\ outcome = Return(<<Put(MinimalListing, "fuel_type", Str(Petrol)), MinimalListing>>)

\* C9: for each of the three providers, when the active provider's API key
\* is empty or white space only, or its prompt is empty, parseCarListing
\* fails with that provider's '<Provider> API key is required' or
\* '<Provider> prompt is required' error and issues no request to the
\* provider.
C9_MissingCredentialNoRequest ==
  settings # NotRun =>
    LET tag == settings.o["ai_provider"].s
        key == settings.o[CASE tag = GEMINI -> "gemini_api_key"
                            [] tag = DEEPSEEK -> "deepseek_api_key"
                            [] tag = OPENROUTER -> "openrouter_api_key"].s
        prompt == settings.o[CASE tag = GEMINI -> "gemini_prompt"
                               [] tag = DEEPSEEK -> "deepseek_prompt"
                               [] tag = OPENROUTER -> "openrouter_prompt"].s
        keyError ==
          CASE tag = GEMINI -> "Gemini API key is required"
            [] tag = DEEPSEEK -> "Deepseek API key is required"
            [] tag = OPENROUTER -> "OpenRouter API key is required"
        promptError ==
          CASE tag = GEMINI -> "Gemini prompt is required"
            [] tag = DEEPSEEK -> "Deepseek prompt is required"
            [] tag = OPENROUTER -> "OpenRouter prompt is required"
    IN (Blank(key) \/ prompt = <<>>) =>
         /\ pc = "done"
         /\ requests = <<>>
         /\ outcome \in {Throw(Error(<<keyError>>)), Throw(Error(<<promptError>>))}
         /\ ~Blank(key) => outcome = Throw(Error(<<promptError>>))
         /\ prompt # <<>> => outcome = Throw(Error(<<keyError>>))

\* OpenRouter is active with a key of white space only and a prompt: the
\* invocation failed in the adapter, before any request
C9_Witness ==
  /\ settings # NotRun
  /\ settings.o["ai_provider"] = Str(OPENROUTER)
  /\ settings.o["openrouter_api_key"] = Str(<<" ">>)
  /\ settings.o["openrouter_prompt"] = Str(<<"p">>)
  /\ outcome = Throw(Error(<<"OpenRouter API key is required">>))
  /\ requests = <<>>

\* C10: one invocation of parseCarListing issues at most one provider
\* request, and only to the provider the settings bundle names; after a
\* failed request no further request is issued.
C10_AtMostOneRequest ==
  /\ Len(requests) <= 1
  /\ requests # <<>> =>
       settings # NotRun /\ Str(requests[1].to) = settings.o["ai_provider"]

\* a request to Deepseek failed in transport and the invocation is over
C10_Witness ==
  /\ pc = "done"
  /\ Len(requests) = 1
  /\ requests[1].to = DEEPSEEK
  /\ response = NotRun
  /\ outcome = Throw(Error(<<"TypeError: Failed to fetch">>))

\* the parsed value is an object whose field listings is a list
IsWrappedList(v) ==
  v.t = "obj" /\ "listings" \in DOMAIN v.o /\ v.o["listings"].t = "arr"

\* C4: parseAIResponse dispatches on the parsed JSON value in a fixed order:
\* an object whose field listings is a list yields that list, whatever its
\* other fields; otherwise a bare list is returned as it is; otherwise a
\* non-null object yields the one-element list holding it.
C4_DispatchOrder ==
  normOut # NotRun =>
    LET j == JSONParse(normText) IN
    j.ok =>
      /\ IsWrappedList(j.val) => normOut = Return(j.val.o["listings"].a)
      /\ (~IsWrappedList(j.val) /\ j.val.t = "arr") => normOut = Return(j.val.a)
      /\ (~IsWrappedList(j.val) /\ j.val.t = "obj") => normOut = Return(<<j.val>>)

\* a wrapped list with another field beside it has been normalised
C4_Witness ==
  /\ normText = Stringify(Obj([listings |-> Arr(<<MinimalListing, Null>>),
                               total |-> Num(2)]))
  /\ normOut = Return(<<MinimalListing, Null>>)

\* C5: for every text that parses to a number, a string, a boolean or null,
\* parseAIResponse fails with the 'Invalid response format' message and
\* returns no list.
C5_ScalarOrNullIsInvalidFormat ==
  normOut # NotRun =>
    LET j == JSONParse(normText) IN
    (j.ok /\ j.val.t \in {"num", "str", "bool", "null"}) =>
      /\ ~normOut.ok
      /\ normOut.err.msg[Len(normOut.err.msg)] = "Invalid response format"

\* the candidate has field f
Has(c, f) == c.t = "obj" /\ f \in DOMAIN c.o

\* field f is missing, is no string, or holds white space only
BadText(c, f) ==
  ~Has(c, f) \/ c.o[f].t # "str" \/ \A i \in DOMAIN c.o[f].s : c.o[f].s[i] \in WhiteSpace

\* field f is missing, is no number, or is negative
BadAmount(c, f) == ~Has(c, f) \/ c.o[f].t # "num" \/ c.o[f].n < 0

\* year is missing, is no number, or lies outside 1900 .. now + 1
BadYear(c, now) ==
  ~Has(c, "year") \/ c.o["year"].t # "num" \/ c.o["year"].n \notin 1900 .. (now + 1)

\* an optional numeric field is present and is no number >= 0
BadOptional(c) ==
  \E f \in {"co2", "power_kw", "power_hp", "number_of_doors", "number_of_seats"} :
    Has(c, f) /\ (c.o[f].t # "num" \/ c.o[f].n < 0)

\* some required field of the candidate is invalid
BadRequired(c, now) ==
  \/ BadText(c, "make") \/ BadText(c, "model")
  \/ BadYear(c, now)
  \/ BadAmount(c, "mileage") \/ BadAmount(c, "price")

\* C6: validateListing returns false for every candidate that is not an
\* object, whose make or model is not a non-empty string after trimming,
\* whose year is not a number in [1900, current year + 1], whose mileage or
\* price is not a number >= 0, or that has a present optional numeric field
\* that is not a number >= 0; the years 1900 and current year + 1 themselves
\* are accepted.
C6_RejectsInvalid ==
  valOut # NotRun =>
    /\ (valIn.t # "obj" \/ BadRequired(valIn, valNow) \/ BadOptional(valIn))
         => valOut.ret = FALSE
    /\ ( /\ valIn.t = "obj"
         /\ ~BadText(valIn, "make") /\ ~BadText(valIn, "model")
         /\ ~BadAmount(valIn, "mileage") /\ ~BadAmount(valIn, "price")
         /\ ~BadOptional(valIn)
         /\ ~Has(valIn, "fuel_type")
         /\ Has(valIn, "year")
         /\ valIn.o["year"] \in {Num(1900), Num(valNow + 1)} )
         => valOut.ret = TRUE

\* a record that is valid but for its year, current year + 2, was rejected
C6_Witness ==
  /\ valIn = ApplyEdits(MinimalListing, "year" :> Num(valNow + 2))
  /\ valOut = [ret |-> FALSE, listing |-> valIn]

\* C7: validateListing never fails a candidate because of its fuel_type:
\* when the required fields and the present optional numeric fields are
\* valid it returns true, whatever fuel_type holds.
C7_FuelTypeNeverRejects ==
  ( /\ valOut # NotRun
    /\ valIn.t = "obj"
    /\ ~BadRequired(valIn, valNow)
    /\ ~BadOptional(valIn) )
    => valOut.ret = TRUE

CanonicalFuelTypes == {Petrol, Diesel, Electric, Hybrid, PlugInHybrid}

\* the canonical value the synonym table gives a lower-case name, if any
Synonym(key) ==
  CASE key \in {<<"g", "a", "s", "o", "l", "i", "n", "e">>, <<"g", "a", "s">>, <<"p", "e", "t", "r", "o", "l">>} -> Petrol
    [] key = <<"d", "i", "e", "s", "e", "l">> -> Diesel
    [] key = <<"e", "l", "e", "c", "t", "r", "i", "c">> -> Electric
    [] key = <<"h", "y", "b", "r", "i", "d">> -> Hybrid
    [] key \in {<<"p", "l", "u", "g", "-", "i", "n", " ", "h", "y", "b", "r", "i", "d">>, <<"p", "l", "u", "g", "i", "n", " ", "h", "y", "b", "r", "i", "d">>, <<"p", "h", "e", "v">>} -> PlugInHybrid
    [] OTHER -> <<>>

\* C8: after validateListing returns true for a candidate that had
\* fuel_type, the candidate's fuel_type is absent or one of Petrol, Diesel,
\* Electric, Hybrid, Plug-in Hybrid: the canonical value when the lower-cased
\* input is a key of the synonym table, and removed in every other case.
C8_FuelTypeCanonicalOrAbsent ==
  (valOut # NotRun /\ valOut.ret /\ Has(valIn, "fuel_type")) =>
    LET before == valIn.o["fuel_type"]
        canon == IF before.t = "str" THEN Synonym(ToLowerCase(before.s)) ELSE <<>>
    IN /\ Has(valOut.listing, "fuel_type") =>
            valOut.listing.o["fuel_type"] \in {Str(c) : c \in CanonicalFuelTypes}
       /\ IF canon # <<>>
          THEN Has(valOut.listing, "fuel_type")
               /\ valOut.listing.o["fuel_type"] = Str(canon)
          ELSE ~Has(valOut.listing, "fuel_type")

\* the provider a request went to
SentTo(name) == requests # <<>> /\ requests[Len(requests)].to = name

\* a chat-completions body from which a non-empty content can be taken
HasContent(body) ==
  /\ body.t = "obj"
  /\ Get(body, "choices").t = "arr"
  /\ Get(body, "choices").a # <<>>
  /\ Get(body, "choices").a[1].t = "obj"
  /\ Get(Get(body, "choices").a[1], "message").t = "obj"
  /\ Get(Get(Get(body, "choices").a[1], "message"), "content").t = "str"
  /\ Get(Get(Get(body, "choices").a[1], "message"), "content").s # <<>>

\* the provider answered, and nothing can be taken from its answer
AnsweredWithoutContent ==
  /\ pc = "done"
  /\ response # NotRun
  /\ IF SentTo(GEMINI) THEN response.text = <<>>
     ELSE response.ok /\ response.json.ok /\ ~HasContent(response.json.val)

\* C11: for each of the three adapters, a response that arrived but holds no
\* text or content (no choices, an empty choices list, a missing or empty
\* message content, an empty Gemini text) makes the invocation fail with an
\* error that says there is no content, and with no other error.
C11_NoContentIsExplicit ==
  AnsweredWithoutContent =>
    /\ ~outcome.ok
    /\ outcome.err.msg[1] = "No content in "

\* the provider's name as its adapter writes it in messages
NameInMessages == IF SentTo(DEEPSEEK) THEN "Deepseek" ELSE "OpenRouter"

\* the error body was read and carries a message of the provider
HasProviderMessage(resp) ==
  /\ resp.json.ok
  /\ resp.json.val.t = "obj"
  /\ Get(resp.json.val, "error").t = "obj"
  /\ Get(Get(resp.json.val, "error"), "message").t = "str"
  /\ Get(Get(resp.json.val, "error"), "message").s # <<>>

\* C12: for Deepseek and OpenRouter, a response with a non-success status
\* makes the invocation fail with the provider's own error message when the
\* error body carries one, and with 'Failed to get response from <Provider>'
\* in every other case, a body without a usable message included.
C12_NonOkIsSurfaced ==
  (pc = "done" /\ response # NotRun /\ ~SentTo(GEMINI) /\ ~response.ok) =>
    /\ ~outcome.ok
    /\ outcome.err.msg =
         IF HasProviderMessage(response)
         THEN Get(Get(response.json.val, "error"), "message").s
         ELSE <<"Failed to get response from ", NameInMessages>>

\* the settings-store reads that completed with an error
FailedReads == {name \in DOMAIN replies : replies[name].error # Null}

\* the error e is the cause c itself, or its message holds the message of c
Carries(e, c) ==
  \/ e = c
  \/ \E i \in 0..(Len(e.msg) - Len(c.msg)) :
       SubSeq(e.msg, i + 1, i + Len(c.msg)) = c.msg

\* getSettings ran to its end with a read that failed
SettingsReadFailed ==
  /\ pc = "done"
  /\ FailedReads # {}
  /\ pending = {}

\* C13: when a settings-store read of getSettings returns an error,
\* getSettings returns no bundle and the error raised carries the error of a
\* failed read, whether that error is an instance of Error or not.
C13_LoadFailureCarriesCause ==
  SettingsReadFailed =>
    /\ settings = NotRun
    /\ requests = <<>>
    /\ ~outcome.ok
    /\ \E name \in FailedReads : Carries(outcome.err, replies[name].error)

KnownProviders == {Str(GEMINI), Str(DEEPSEEK), Str(OPENROUTER)}

\* the store answered the read of the provider tag with a tag and no error
TagReturned ==
  /\ "get_ai_provider" \in DOMAIN replies
  /\ replies["get_ai_provider"].error = Null

\* getSettings failed with the error of an unknown provider, and nothing
\* was read or requested after the tag
UnknownProviderFailure ==
  /\ pc = "done"
  /\ ~outcome.ok
  /\ outcome.err.isError
  /\ outcome.err.msg[1] = "Unknown AI provider: "
  /\ settings = NotRun
  /\ rpcLog = <<"get_ai_provider">>
  /\ requests = <<>>

\* C14 as stated: every tag the store returns that is not gemini, deepseek
\* or openrouter makes getSettings fail with a configuration error, with no
\* read of a credential and no provider request.
C14_AnyOtherTagFails ==
  (TagReturned /\ replies["get_ai_provider"].data \notin KnownProviders) =>
    UnknownProviderFailure

\* C14 amended: every non-empty tag the store returns that is not gemini,
\* deepseek or openrouter makes getSettings fail with the error 'Unknown AI
\* provider: <tag>', with no read of a credential and no provider request; a
\* missing or empty tag selects gemini, whose values are then read.
C14_UnknownTagFails ==
  /\ (TagReturned /\ replies["get_ai_provider"].data \notin KnownProviders
        /\ Truthy(replies["get_ai_provider"].data)) =>
       /\ UnknownProviderFailure
       /\ outcome.err.msg = <<"Unknown AI provider: ">> \o replies["get_ai_provider"].data.s
  /\ (TagReturned /\ ~Truthy(replies["get_ai_provider"].data)) =>
       /\ SubSeq(rpcLog, 2, Len(rpcLog)) = ProviderReads(GEMINI)
       /\ ~(pc = "done" /\ ~outcome.ok /\ outcome.err.msg[1] = "Unknown AI provider: ")

C14_Witness ==
  /\ TagReturned
  /\ replies["get_ai_provider"].data = Str(<<"c", "l", "a", "u", "d", "e">>)
  /\ UnknownProviderFailure

\* the provider whose value a settings-store read returns
Owner(name) ==
  CASE name \in {"get_gemini_apikey", "get_gemini_prompt"} -> Str(GEMINI)
    [] name \in {"get_deepseek_apikey", "get_deepseek_prompt"} -> Str(DEEPSEEK)
    [] name \in {"get_openrouter_apikey", "get_openrouter_prompt",
                 "get_openrouter_site_url", "get_openrouter_site_name"} -> Str(OPENROUTER)
    [] OTHER -> Undefined

\* the reads issued after the first one
LaterReads == {rpcLog[i] : i \in 2..Len(rpcLog)}

\* the fields of the bundle that hold a key or a prompt
KeyAndPromptFields(s) == DOMAIN s.o \ {"ai_provider", "site_url", "site_name"}

\* C15: in getSettings the read of the provider tag is the first read and
\* has completed before any read of a key, a prompt or a site identity is
\* issued; the reads issued then are those of the provider the tag names and
\* no other provider's; the bundle returned names that provider and holds
\* its values only.
C15_TagFirstThenOwnReads ==
  /\ rpcLog # <<>> => rpcLog[1] = "get_ai_provider"
  /\ LaterReads # {} =>
       /\ TagReturned
       /\ "get_ai_provider" \notin LaterReads
       /\ \A name \in LaterReads : Owner(name) = CurrentProvider
  /\ settings # NotRun =>
       /\ TagReturned
       /\ Get(settings, "ai_provider") = CurrentProvider
       /\ LaterReads = {name \in DOMAIN replies : Owner(name) = CurrentProvider}
       /\ Cardinality(KeyAndPromptFields(settings)) = 2
       /\ \A name \in LaterReads :
            \E f \in DOMAIN settings.o :
              settings.o[f] = replies[name].data \/ ~Truthy(replies[name].data)

C15_Witness ==
  /\ settings # NotRun
  /\ Get(settings, "ai_provider") = Str(OPENROUTER)
  /\ Len(rpcLog) = 5
  /\ Get(settings, "openrouter_api_key") = Str(<<" ", "k">>)

\* the field of the bundle a read fills, and the value it gets when the
\* store holds none
FieldOf(name) ==
  CASE name = "get_gemini_apikey" -> "gemini_api_key"
    [] name = "get_gemini_prompt" -> "gemini_prompt"
    [] name = "get_deepseek_apikey" -> "deepseek_api_key"
    [] name = "get_deepseek_prompt" -> "deepseek_prompt"
    [] name = "get_openrouter_apikey" -> "openrouter_api_key"
    [] name = "get_openrouter_prompt" -> "openrouter_prompt"
    [] name = "get_openrouter_site_url" -> "site_url"
    [] name = "get_openrouter_site_name" -> "site_name"

DefaultOf(name) ==
  CASE name = "get_openrouter_site_url" -> Origin
    [] name = "get_openrouter_site_name" -> Str(<<"B", "a", "n", "a", "n", "a", "D", "B">>)
    [] OTHER -> Str(<<>>)

\* the places in the log of the provider's reads that answered with an error
ErrorPlaces == {i \in 2..Len(rpcLog) : replies[rpcLog[i]].error # Null}

\* getSettings has produced its outcome after issuing the provider's reads
SettingsSettled == LaterReads # {} /\ pc \notin {"awaitProvider", "awaitReads"}

\* C16: getSettings issues all the reads of the active provider together,
\* none waiting for another to finish, and produces its outcome only when
\* all of them have completed; the outcome depends on what the reads
\* answered and not on the order in which they completed: the error of the
\* first failed read in the order issued, or else the bundle of the values.
C16_ReadsTogetherOutcomeAfterAll ==
  /\ LaterReads # {} =>
       /\ LaterReads = Range(ProviderReads(CurrentProvider.s))
       /\ pending \cup (DOMAIN replies \cap LaterReads) = LaterReads
       /\ pending \cap DOMAIN replies = {}
  /\ SettingsSettled =>
       /\ pending = {}
       /\ LaterReads \subseteq DOMAIN replies
       /\ IF ErrorPlaces # {}
          THEN /\ settings = NotRun
               /\ LET first == CHOOSE i \in ErrorPlaces : \A j \in ErrorPlaces : i <= j
                  IN outcome = Throw(AsError(replies[rpcLog[first]].error,
                                             "Failed to load AI settings"))
          ELSE /\ settings # NotRun
               /\ \A name \in LaterReads :
                    Get(settings, FieldOf(name)) = OrElse(replies[name].data, DefaultOf(name))

\* both reads of the provider failed: the outcome is the error of the one issued first
C16_Witness ==
  /\ SettingsSettled
  /\ Cardinality(ErrorPlaces) = 2
  /\ replies[rpcLog[2]].error = StoreError(TRUE)
  /\ replies[rpcLog[3]].error = StoreError(FALSE)
  /\ outcome = Throw(StoreError(TRUE))

\* C18: validateListing leaves the candidate as it was whenever it returns
\* false: fuel_type is rewritten or removed only after every check has
\* passed, and a validation that fails by a caught exception changes
\* nothing.
C18_FalseLeavesUnchanged ==
  (valOut # NotRun /\ ~valOut.ret) => valOut.listing = valIn

\* a candidate whose fuel_type would be rewritten is rejected for another
\* field's sake
C18_Witness ==
  /\ valOut # NotRun
  /\ ~valOut.ret
  /\ valIn.t = "obj"
  /\ Get(valIn, "fuel_type") = Str(<<"G", "A", "S">>)
  /\ Get(valIn, "co2") = Num(-1)
  /\ valOut.listing = valIn

\* a candidate rejected by the exception its fuel_type raises
C18_WitnessException ==
  /\ valOut # NotRun
  /\ ~valOut.ret
  /\ valIn.t = "obj"
  /\ ~RequiredFieldsFail(valIn, valNow)
  /\ Get(valIn, "fuel_type") = Num(5)
  /\ valOut.listing = valIn

\* what the adapter of invocation f returns or throws, from the response
\* that invocation received
AdapterResult(f) ==
  IF f.requests[1].to = GEMINI THEN parseAIResponse(f.response.text)
  ELSE ChatCompletionResult(
         IF f.requests[1].to = DEEPSEEK THEN "Deepseek" ELSE "OpenRouter", f.response)

\* what parseCarListing returns or throws once the adapter gave a
ResultAfter(a) ==
  IF ~a.ok THEN Throw(AsError(a.err, "Failed to parse car listing data"))
  ELSE LET v == ValidateAll(a.val, thisYear) IN
       IF v.ok THEN v ELSE Throw(AsError(v.err, "Failed to parse car listing data"))

\* what invocation f throws when it ends before any request, from its
\* argument and the answers to its own reads
EarlyFailure(f) ==
  IF Blank(f.rawData) THEN Throw(Error(<<"No data provided">>))
  ELSE IF f.replies["get_ai_provider"].error # Null
  THEN Throw(AsError(f.replies["get_ai_provider"].error, "Failed to load AI settings"))
  ELSE LET m == MergeSettings(OrElse(f.replies["get_ai_provider"].data, Str(GEMINI)).s,
                              f.replies)
       IN IF ~m.ok THEN Throw(AsError(m.err, "Failed to load AI settings"))
          ELSE StartAdapter(m.val, f.rawData)

\* invocation f has used nothing but its argument, the answers to its own
\* reads and the response to its own request
Determined(f) ==
  /\ Len(f.requests) <= 1
  /\ f.settings # NotRun =>
       Return(f.settings) =
         MergeSettings(OrElse(f.replies["get_ai_provider"].data, Str(GEMINI)).s, f.replies)
  /\ f.requests # <<>> =>
       /\ f.settings # NotRun
       /\ Return(f.requests[1]) = StartAdapter(f.settings, f.rawData)
  /\ (f.requests = <<>> /\ f.pc \notin {"start", "awaitProvider", "awaitReads"}) =>
       f.pc = "done" /\ f.outcome = EarlyFailure(f)
  /\ (f.pc = "done" /\ f.requests # <<>>) =>
       IF f.response = NotRun THEN ~f.outcome.ok
       ELSE f.outcome = ResultAfter(AdapterResult(f))

\* C17: two invocations of parseCarListing under way at once share no
\* state: in every interleaving of their steps each one's settings, request
\* and outcome follow from its own argument, the answers to its own reads
\* and the response to its own request, and each sends a request of its own.
C17_InvocationsIndependent ==
  TwoInvocations => Determined(Frame) /\ Determined(parked)

\* one invocation has returned its listings through Gemini while the other,
\* called with another text, still reads the body of its Deepseek response
C17_Witness ==
  /\ TwoInvocations
  /\ pc = "done" /\ outcome.ok /\ requests # <<>> /\ requests[1].to = GEMINI
  /\ parked.pc = "awaitBody" /\ parked.requests[1].to = DEEPSEEK
  /\ parked.requests[1].rawData # requests[1].rawData
  /\ parked.response.ok

\* the set_ai_provider calls in flight
ProviderCallsInFlight == {op \in ops : "set_ai_provider" \in op.pending}

\* C19: handleUpdateProvider issues no set_ai_provider call when the
\* provider selected is the one of settings.ai_provider or when
\* isUpdatingProvider is true, so that for every sequence of selections at
\* most one set_ai_provider call is in flight at any time.
C19_OneProviderCallInFlight ==
  /\ [](/\ Cardinality(ProviderCallsInFlight) <= 1
        /\ ProviderCallsInFlight # {} => isUpdatingProvider)
  /\ [][\A op \in ProviderCallsInFlight' \ ProviderCallsInFlight :
          /\ ~isUpdatingProvider
          /\ op.sent["set_ai_provider"] # formSettings["ai_provider"]]_vars

\* a call is in flight while the form is shown with another provider to select
C19_Witness ==
  /\ Cardinality(ProviderCallsInFlight) = 1
  /\ ~loading
  /\ isUpdatingProvider
  /\ formSettings["ai_provider"] = Str(DEEPSEEK)
  /\ \E op \in ProviderCallsInFlight : op.sent["set_ai_provider"] = Str(OPENROUTER)

\* the handlers that have a flag of their own
Handlers == Kinds \ {"loadSettings"}

\* a flag is set only while the operation that set it is suspended at an
\* await, and loading only while a loadSettings awaits its reads
FlagsHaveOwners ==
  /\ \A kind \in Handlers : Flag(kind) => \E op \in ops : op.kind = kind
  /\ loading => \E op \in ops : op.phase = "load"

\* a handler is in loadSettings only when every set_ call of its
\* Promise.all has completed and none answered with an error
ReloadAfterSets ==
  \A op \in ops :
    (op.kind \in Handlers /\ op.phase = "load") =>
      op.pending = {} /\ ~op.failed

\* C20: each of loading, isSavingGemini, isSavingDeepseek, isSavingOpenRouter
\* and isUpdatingProvider is true only while the operation that set it still
\* awaits a remote call or its reload, and is false again once that
\* operation has finished, by success or by failure; when the remote calls
\* complete no flag stays true for ever; and a handler reloads the settings
\* only after all its set_ calls have completed without an error.
C20_FlagsAreReset ==
  /\ [](FlagsHaveOwners /\ ReloadAfterSets)
  /\ \A kind \in Kinds : Flag(kind) ~> ~Flag(kind)

\* a handler has failed and finished: no flag is left set
C20_Witness ==
  /\ ops = {}
  /\ formMessage = Message("error", <<"Failed to save settings">>)
  /\ ~loading /\ ~isSavingGemini /\ ~isSavingDeepseek /\ ~isSavingOpenRouter
  /\ ~isUpdatingProvider

(***************************************************************************)
(* useProjects and useCarListings: the two lists, the remote tables they   *)
(* mirror, and the remote calls in flight.  A remote call is in the bag    *)
(* `calls` from the moment it is sent until the code after its await has   *)
(* run; the remote answers it in a step of its own.  The operations    *)
(* are those of the hook's latest render, so the `user` and `isAdmin` they *)
(* read are the current ones.  The two hooks share nothing but useAuth, so *)
(* a behaviour mounts one of them: the table `tables` holds.               *)
(***************************************************************************)
MaxCalls == 1
MaxRows == 1

PROJECTS == "projects"
CAR_LISTINGS == "car_listings"
Tables == {PROJECTS, CAR_LISTINGS}
Mutations == {"insert", "update", "delete"}

User(id) == [t |-> "user", id |-> id]

\* the states useAuth can be in: nobody, a user, an administrator
AuthStates == {<<Null, FALSE>>, <<User("alice"), FALSE>>, <<User("alice"), TRUE>>}

\* the rows a caller creates, and the changes a caller asks for
NewProjects == {[user_id |-> "alice", name |-> "a"]}
NewListings == {[user_id |-> "alice", project_id |-> "p2"]}
ProjectUpdates == {[name |-> "b"]}
ListingUpdates == {[project_id |-> "p2"]}
RowIds == 1..MaxRows

WithId(row, id) ==
  [f \in DOMAIN row \cup {"id"} |-> IF f = "id" THEN id ELSE row[f]]
Merge(row, updates) ==
  [f \in DOMAIN row |-> IF f \in DOMAIN updates THEN updates[f] ELSE row[f]]

RemoteCall(table, op, arg) == [table |-> table, op |-> op, arg |-> arg, reply |-> NotRun]
InFlight == BagToSet(calls)
Place(call, cl) == cl (+) SetToBag({call})
Take(call, cl) == cl (-) SetToBag({call})

List(table) == IF table = PROJECTS THEN projects ELSE listings
SetList(table, v) ==
  IF table = PROJECTS
  THEN projects' = v /\ UNCHANGED listings
  ELSE listings' = v /\ UNCHANGED projects

\* a row as the data of a reply
Row(r) == [t |-> "row", r |-> r]

\* the query fetchProjects builds: every row for an administrator, the
\* user's own otherwise
ProjectsQuery(u, admin) ==
  RemoteCall(PROJECTS, "select",
       [project_id |-> "", user_id |-> IF admin THEN "" ELSE u.id])

\* the query fetchListings builds; an absent projectId is ""
ListingsQuery(u, admin, pid) ==
  RemoteCall(CAR_LISTINGS, "select",
       [project_id |-> pid, user_id |-> IF admin THEN "" ELSE u.id])

Matches(row, filter) ==
  /\ filter.user_id # "" => row.user_id = filter.user_id
  /\ filter.project_id # "" => row.project_id = filter.project_id

\* the hook that is mounted is the one whose table `tables` holds
Mounted(table) == table \in DOMAIN tables

\* the query the effect of the mounted hook builds
Query(table, u, admin, pid) ==
  IF table = PROJECTS THEN ProjectsQuery(u, admin) ELSE ListingsQuery(u, admin, pid)

\* the table is empty when the hook mounts; `next` counts the ids given out
InitialTable(table) == [rows |-> <<>>, next |-> 1]

NoCalls == EmptyBag

\* a hook is mounted and its effect has run once: without a user the list
\* is empty and loading is over, with a user the query is in flight
HooksInit ==
  /\ \E table \in Tables, auth \in AuthStates :
       /\ tables = [t \in {table} |-> InitialTable(t)]
       /\ user = auth[1] /\ isAdmin = auth[2]
       /\ hookLoading = [t \in {table} |-> auth[1] # Null]
       /\ hookError = [t \in {table} |-> Null]
       /\ \E pid \in IF table = PROJECTS THEN {""} ELSE {"", "p1"} :
            /\ projectId = pid
            /\ calls = IF auth[1] = Null THEN NoCalls
                       ELSE Place(Query(table, auth[1], auth[2], pid), NoCalls)
  /\ projects = <<>> /\ listings = <<>>
  /\ settled = NotRun
  /\ NormIdle /\ ValIdle /\ PipeIdle /\ ConcIdle /\ AdminIdle

otherVars == <<normVars, valVars, pipeVars, parked, adminVars>>

\* useAuth returns another user or another isAdmin: the hook renders again
\* and its effect runs, up to the await of the query
AuthChanges(u, admin) ==
  /\ <<u, admin>> # <<user, isAdmin>>
  /\ user' = u /\ isAdmin' = admin
  /\ IF u = Null
     THEN /\ projects' = <<>> /\ listings' = <<>>
          /\ hookLoading' = [t \in DOMAIN tables |-> FALSE]
          /\ UNCHANGED calls
     ELSE /\ BagCardinality(calls) < MaxCalls
          /\ \E table \in DOMAIN tables :
               calls' = Place(Query(table, u, admin, projectId), calls)
          /\ UNCHANGED <<projects, listings, hookLoading>>
  /\ UNCHANGED <<projectId, hookError, tables, settled, otherVars>>

\* the errors a call comes back with: a query with the remote's error
\* object, a create, update or delete with that or with an instance of Error
CallErrors(op) == IF op = "select" THEN {StoreError(FALSE)} ELSE StoreErrors

\* the remote table answers a call: an error that leaves the table as it
\* was, or the rows asked for after the change asked for
Answers(c) ==
  LET tab == tables[c.table]
      failed == {[reply |-> [error |-> e, data |-> Null], tables |-> tables] :
                   e \in CallErrors(c.op)}
      done(data, rows, next) ==
        [reply |-> [error |-> Null, data |-> data],
         tables |-> [tables EXCEPT ![c.table] = [rows |-> rows, next |-> next]]]
  IN failed \cup
     CASE c.op = "select" ->
            {done(Arr(SelectSeq(tab.rows, LAMBDA r : Matches(r, c.arg))),
                  tab.rows, tab.next)}
       [] c.op = "insert" ->
            {done(Row(WithId(c.arg.row, tab.next)),
                  <<WithId(c.arg.row, tab.next)>> \o tab.rows, tab.next + 1)}
       [] c.op = "update" ->
            {done(Row(Merge(tab.rows[i], c.arg.updates)),
                  [tab.rows EXCEPT ![i] = Merge(tab.rows[i], c.arg.updates)],
                  tab.next) :
               i \in {j \in 1..Len(tab.rows) : tab.rows[j].id = c.arg.id}}
       [] c.op = "delete" ->
            {done(Null, SelectSeq(tab.rows, LAMBDA r : r.id # c.arg.id), tab.next)}

RemoteAnswers(c) ==
  /\ c \in InFlight /\ c.reply = NotRun
  /\ \E a \in Answers(c) :
       /\ calls' = Place([c EXCEPT !.reply = a.reply], Take(c, calls))
       /\ tables' = a.tables
  /\ UNCHANGED <<user, isAdmin, projectId, projects, listings, hookLoading,
                 hookError, settled, otherVars>>

\* fetchProjects and fetchListings after the await of the query
FetchSettles(c) ==
  /\ c \in InFlight /\ c.op = "select" /\ c.reply # NotRun
  /\ IF c.reply.error # Null
     THEN /\ hookError' = [hookError EXCEPT
                             ![c.table] = AsError(c.reply.error, "An error occurred")]
          /\ SetList(c.table, <<>>)
     ELSE /\ SetList(c.table, c.reply.data.a)
          /\ UNCHANGED hookError
  /\ hookLoading' = [hookLoading EXCEPT ![c.table] = FALSE]
  /\ calls' = Take(c, calls)
  /\ UNCHANGED <<user, isAdmin, projectId, tables, settled, otherVars>>
\* an operation throws before its try block: its promise is rejected
Rejects(table, op, message) ==
  /\ settled' = [op |-> op, status |-> "rejected", reason |-> Error(<<message>>)]
  /\ UNCHANGED calls

\* an operation up to the await of its remote call
Sends(call) ==
  /\ BagCardinality(calls) < MaxCalls
  /\ calls' = Place(call, calls)
  /\ UNCHANGED settled

\* the rows a table was asked to insert and has not inserted yet are fewer
\* than the ids left
CanInsert(table) ==
  LET inserts == {c \in InFlight : c.op = "insert" /\ c.reply = NotRun}
  IN tables[table].next + BagCardinality([c \in inserts |-> calls[c]]) <= MaxRows

hookFrame == <<user, isAdmin, projectId, projects, listings, hookLoading, hookError,
               tables, otherVars>>

createProject(project) ==
  /\ Mounted(PROJECTS)
  /\ IF user = Null
     THEN Rejects(PROJECTS, "insert", "You must be logged in to create a project")
     ELSE CanInsert(PROJECTS) /\ Sends(RemoteCall(PROJECTS, "insert", [row |-> project]))
  /\ UNCHANGED hookFrame

updateProject(id, updates) ==
  /\ Mounted(PROJECTS)
  /\ IF user = Null
     THEN Rejects(PROJECTS, "update", "You must be logged in to update a project")
     ELSE Sends(RemoteCall(PROJECTS, "update", [id |-> id, updates |-> updates]))
  /\ UNCHANGED hookFrame

deleteProject(id) ==
  /\ Mounted(PROJECTS)
  /\ IF user = Null
     THEN Rejects(PROJECTS, "delete", "You must be logged in to delete a project")
     ELSE IF ~isAdmin
     THEN Rejects(PROJECTS, "delete", "Only administrators can delete projects")
     ELSE Sends(RemoteCall(PROJECTS, "delete", [id |-> id]))
  /\ UNCHANGED hookFrame

createListing(listing) ==
  /\ Mounted(CAR_LISTINGS)
  /\ IF user = Null
     THEN Rejects(CAR_LISTINGS, "insert", "You must be logged in to create a listing")
     ELSE CanInsert(CAR_LISTINGS)
          /\ Sends(RemoteCall(CAR_LISTINGS, "insert", [row |-> listing]))
  /\ UNCHANGED hookFrame

updateListing(id, updates) ==
  /\ Mounted(CAR_LISTINGS)
  /\ IF user = Null
     THEN Rejects(CAR_LISTINGS, "update", "You must be logged in to update a listing")
     ELSE Sends(RemoteCall(CAR_LISTINGS, "update", [id |-> id, updates |-> updates]))
  /\ UNCHANGED hookFrame

deleteListing(id) ==
  /\ Mounted(CAR_LISTINGS)
  /\ IF user = Null
     THEN Rejects(CAR_LISTINGS, "delete", "You must be logged in to delete a listing")
     ELSE Sends(RemoteCall(CAR_LISTINGS, "delete", [id |-> id]))
  /\ UNCHANGED hookFrame

\* the list after the state update of a create, update or delete whose
\* remote call returned `data`
Applied(c, prev) ==
  CASE c.op = "insert" -> <<c.reply.data.r>> \o prev
    [] c.op = "update" ->
         [i \in 1..Len(prev) |->
            IF prev[i].id = c.arg.id THEN c.reply.data.r ELSE prev[i]]
    [] c.op = "delete" -> SelectSeq(prev, LAMBDA p : p.id # c.arg.id)

\* a delete without its `if (error) throw error`: the row leaves the list
\* whatever the remote call returned
MutationSettles_IgnoresError(c) ==
  /\ c \in InFlight /\ c.op \in Mutations /\ c.reply # NotRun
  /\ IF c.reply.error # Null /\ c.op # "delete"
     THEN /\ settled' = [op |-> c.op, status |-> "rejected",
                         reason |-> AsError(c.reply.error, "An error occurred")]
          /\ UNCHANGED <<projects, listings>>
     ELSE /\ SetList(c.table, Applied(c, List(c.table)))
          /\ settled' = [op |-> c.op, status |-> "fulfilled", reason |-> Null]
  /\ calls' = Take(c, calls)
  /\ UNCHANGED <<user, isAdmin, projectId, hookLoading, hookError, tables, otherVars>>

\* a create, update or delete after the await of its remote call
MutationSettles(c) ==
  /\ c \in InFlight /\ c.op \in Mutations /\ c.reply # NotRun
  /\ IF c.reply.error # Null
     THEN /\ settled' = [op |-> c.op, status |-> "rejected",
                         reason |-> AsError(c.reply.error, "An error occurred")]
          /\ UNCHANGED <<projects, listings>>
     ELSE /\ SetList(c.table, Applied(c, List(c.table)))
          /\ settled' = [op |-> c.op, status |-> "fulfilled", reason |-> Null]
  /\ calls' = Take(c, calls)
  /\ UNCHANGED <<user, isAdmin, projectId, hookLoading, hookError, tables, otherVars>>

HooksNext ==
  \/ \E auth \in AuthStates : AuthChanges(auth[1], auth[2])
  \/ \E project \in NewProjects : createProject(project)
  \/ \E id \in RowIds, updates \in ProjectUpdates : updateProject(id, updates)
  \/ \E id \in RowIds : deleteProject(id)
  \/ \E listing \in NewListings : createListing(listing)
  \/ \E id \in RowIds, updates \in ListingUpdates : updateListing(id, updates)
  \/ \E id \in RowIds : deleteListing(id)
  \/ \E c \in InFlight : RemoteAnswers(c)
  \/ \E c \in InFlight : FetchSettles(c)
  \/ \E c \in InFlight : MutationSettles(c)

HooksSpec == HooksInit /\ [][HooksNext]_vars

(***************************************************************************)
(* C21                                                                     *)
(***************************************************************************)
\* the calls whose code after the await runs in this step
Settling ==
  {c \in InFlight : c.reply # NotRun /\ CopiesIn(c, calls') < CopiesIn(c, calls)}

\* the create, update and delete calls this step sends
MutationsSent ==
  {c \in BagToSet(calls') : /\ c.op \in Mutations
                            /\ c.reply = NotRun
                            /\ CopiesIn(c, calls') > CopiesIn(c, calls)}

ListsUnchanged == projects' = projects /\ listings' = listings

\* the step of an effect: useAuth returned something else, or a query came back
EffectStep ==
  \/ user' # user
  \/ isAdmin' # isAdmin
  \/ \E c \in Settling : c.op = "select"

\* a promise is rejected in a step in which no remote call came back
RejectedBeforeTheCall ==
  /\ settled' # settled
  /\ settled'.status = "rejected"
  /\ \A c \in Settling : c.op \notin Mutations

\* C21: in useProjects and useCarListings a create, update or delete is sent
\* to the remote only when a user is logged in (deleteProject: only when the
\* user is an administrator too), otherwise its promise is rejected and no
\* call is made; the list changes, outside the effects, only in the step
\* after the await of a create, update or delete that the remote answered
\* without an error; and the step in which an operation fails, before the
\* call or after it, leaves both lists as they were.
C21_ListFollowsRemoteSuccess ==
  [][/\ \A c \in MutationsSent :
          /\ user # Null
          /\ c.table = PROJECTS /\ c.op = "delete" => isAdmin
          /\ ListsUnchanged
     /\ RejectedBeforeTheCall =>
          /\ calls' = calls /\ tables' = tables
          /\ ListsUnchanged
          /\ user = Null \/ (settled'.op = "delete" /\ ~isAdmin /\ Mounted(PROJECTS))
     /\ \A c \in Settling :
          c.op \in Mutations =>
            IF c.reply.error # Null
            THEN settled'.status = "rejected" /\ settled'.op = c.op /\ ListsUnchanged
            ELSE settled'.status = "fulfilled" /\ settled'.op = c.op
     /\ ~ListsUnchanged =>
          \/ EffectStep
          \/ \E c \in Settling : c.op \in Mutations /\ c.reply.error = Null]_vars

\* deleteProject failed at the remote and the project is still in the list
C21_Witness ==
  /\ settled # NotRun
  /\ settled.op = "delete" /\ settled.status = "rejected"
  /\ settled.reason \in {AsError(e, "An error occurred") : e \in StoreErrors}
  /\ Mounted(PROJECTS)
  /\ Len(projects) = 1
  /\ tables[PROJECTS].rows = projects
  /\ calls = EmptyBag

\* createListing succeeded and the new listing is first in the list
C21_WitnessCreated ==
  /\ settled # NotRun
  /\ settled.op = "insert" /\ settled.status = "fulfilled"
  /\ Mounted(CAR_LISTINGS)
  /\ listings = tables[CAR_LISTINGS].rows /\ Len(listings) = 1

\* updateProject was called without a user: no call was made
C21_WitnessNoUser ==
  /\ settled # NotRun
  /\ settled.reason = Error(<<"You must be logged in to update a project">>)
  /\ user = Null /\ calls = EmptyBag

\* deleteProject was called by a user who is no administrator
C21_WitnessNoAdmin ==
  /\ settled # NotRun
  /\ settled.reason = Error(<<"Only administrators can delete projects">>)
  /\ user # Null /\ ~isAdmin /\ calls = EmptyBag

====
